---- MODULE Spec2Model ----
(***************************************************************************)
(* Model of the managed code-index synchronisation engine:                 *)
(*   operations/manifest.ts    manifest cache (TTL, in-flight joining)     *)
(*   operations/git-events.ts  event state machine                         *)
(*   operations/workspace.ts   folder registry, file-upsert helpers        *)
(*   state/atoms.ts, ManagedIndexerRefactored.ts  store and orchestrator   *)
(*                                                                         *)
(* The program runs on a single-threaded event loop.  One action of the    *)
(* model is one run of code between two suspension points.  A continuation *)
(* of a settled promise is a microtask: it runs before any timer, host     *)
(* call or I/O completion (MicrotaskPending).                              *)
(***************************************************************************)
EXTENDS Integers, Sequences, FiniteSets, TLC

VARIABLES
    now,         \* Date.now()
    host,        \* what the host holds: secrets/values of ContextProxy, workspaceFolders
    config,      \* configTokenAtom, configOrganizationIdAtom, configTesterWarningsDisabledUntilAtom
    isActive,    \* isActiveAtom
    folders,     \* workspaceFoldersAtom: path -> WorkspaceFolderState
    cache,       \* manifestCacheAtom: key -> ManifestCacheEntry
    queue,       \* fileUpsertQueueAtom
    errors,      \* errorsAtom
    intervalOn,  \* fileUpsertInterval # null
    subscribed,  \* this.disposables holds the two host subscriptions
    watchers,    \* GitWatcher objects created and not disposed: id -> [path, status]
    promises,    \* promises returned by fetchManifest: id -> [key, status, manifest]
    handlers,    \* processGitEvent invocations suspended at an await
    starts,      \* start() invocations suspended at an await
    pool,        \* fileUpsertLimit (p-limit): running and waiting uploads
    lastOp,      \* the operation that produced this state, with its inputs
    pure         \* inputs and result of the pure function under check

vars == <<now, host, config, isActive, folders, cache, queue, errors, intervalOn,
          subscribed, watchers, promises, handlers, starts, pool, lastOp, pure>>

(***************************************************************************)
(* Bounds of the model                                                     *)
(***************************************************************************)
\* event handlers suspended at the same time
MaxHandlers == 2
\* file versions in the system at a time: awaiting their manifest, queued, uploading or recorded as an error
MaxWork == 2
\* start() invocations suspended at the same time
MaxStarts == 1
\* GitWatcher objects alive at the same time
MaxWatchers == 2
\* entries of a manifest drawn for the pure functions
MaxManifestLen == 2
\* the tasks already in the upload queue when a run of the consumer is observed
MaxQueue == 4

(***************************************************************************)
(* Values                                                                  *)
(***************************************************************************)
NULL == "null"
None == <<>>
Some(x) == <<x>>
NoWatcher == 0
\* a watcher object no start() created
UnknownWatcher == MaxWatchers + 1

EmptyMap == [x \in {} |-> NULL]
MapPut(f, k, v) == [x \in DOMAIN f \cup {k} |-> IF x = k THEN v ELSE f[x]]
MapDel(f, k) == [x \in DOMAIN f \ {k} |-> f[x]]
Range(s) == {s[i] : i \in DOMAIN s}
RemoveAt(s, i) == SubSeq(s, 1, i - 1) \o SubSeq(s, i + 1, Len(s))

WorkspacePaths == <<"/w1", "/w2">>
Branches == {"main", "feature"}
ProjectIds == {"p1", "p2"}
Hashes == {"h1", "h2"}

\* file paths are sequences of characters
File_a_ts == <<"a", ".", "t", "s">>
File_B_TS == <<"B", ".", "T", "S">>
File_c_x == <<"c", ".", "x">>
File_dot_ts == <<".", "t", "s">>
File_d == <<"d">>
FilePaths == {File_a_ts, File_B_TS, File_c_x, File_dot_ts, File_d}

Entry(p, h) == [filePath |-> p, fileHash |-> h]
\* manifests the server answers with (ServerManifest.files)
ServerManifests == {<<>>, <<Entry(File_a_ts, "h1")>>}

(***************************************************************************)
(* operations/file-upsert: shouldProcessFile                               *)
(***************************************************************************)
\* the allow-list of shared/supported-extensions, as far as the indexer's tests
\* show it: test.ts is queued, test.unsupported is not
scannerExtensions == {<<".", "t", "s">>}

\* String.prototype.toLowerCase on the characters the model uses
LowerChar(c) ==
    CASE c = "T" -> "t"
      [] c = "S" -> "s"
      [] c = "B" -> "b"
      [] OTHER -> c
toLowerCase(s) == [i \in 1..Len(s) |-> LowerChar(s[i])]

LastIndexOf(s, c) ==
    LET S == {i \in 1..Len(s) : s[i] = c}
    IN  IF S = {} THEN 0 ELSE CHOOSE i \in S : \A j \in S : j <= i

\* path.extname: from the last "." of the base name to the end; empty when the
\* base name has no "." or only starts with one
extname(p) ==
    LET base == LastIndexOf(p, "/") + 1
        dot == LastIndexOf(p, ".")
    IN  IF dot <= base THEN <<>> ELSE SubSeq(p, dot, Len(p))

shouldProcessFileNoLower(filePath) == extname(filePath) \in scannerExtensions
shouldProcessFileAny(filePath) == TRUE
shouldProcessFile(filePath) == toLowerCase(extname(filePath)) \in scannerExtensions

createFileUpsertTask(filePath, fileHash, branch, isBaseBranch, projectId, workspacePath) ==
    [filePath |-> filePath, fileHash |-> fileHash, branch |-> branch,
     isBaseBranch |-> isBaseBranch, projectId |-> projectId, workspacePath |-> workspacePath]

(***************************************************************************)
(* operations/error: createError                                           *)
(***************************************************************************)
createErrorNoContext(type, filePath, branch, operation) ==
    [type |-> type, filePath |-> None, branch |-> NULL, operation |-> operation]
createError(type, filePath, branch, operation) ==
    [type |-> type, filePath |-> filePath, branch |-> branch, operation |-> operation]

(***************************************************************************)
(* operations/manifest                                                     *)
(***************************************************************************)
MANIFEST_MAX_AGE_MS == 5 * 60 * 1000

getManifestCacheKey(projectId, branch) == projectId \o ":" \o branch

\* the default horizon of pruneManifestCache
PRUNE_MAX_AGE_MS == 30 * 60 * 1000
pruneManifestCacheNoPending(c, maxAgeMs) ==
    LET cutoff == now - maxAgeMs
    IN  [k \in {x \in DOMAIN c : c[x].fetchedAt > cutoff} |-> c[k]]
\* keeps the entries that are still fetching or whose fetchedAt is after the cutoff
pruneManifestCache(c, maxAgeMs) ==
    LET cutoff == now - maxAgeMs
    IN  [k \in {x \in DOMAIN c : c[x].fetchPromise # 0 \/ c[x].fetchedAt > cutoff} |-> c[k]]

\* exported by operations/manifest; no caller in the indexer
invalidateManifestForBranch(c, projectId, oldBranch, newBranch) ==
    MapDel(c, getManifestCacheKey(projectId, oldBranch))

getCachedManifestStrict(c, key, maxAgeMs) ==
    IF key \notin DOMAIN c \/ c[key].manifest = None THEN None
    ELSE IF now - c[key].fetchedAt >= maxAgeMs THEN None ELSE c[key].manifest
\* None for "null", else Some(manifest)
getCachedManifest(c, key, maxAgeMs) ==
    IF key \notin DOMAIN c \/ c[key].manifest = None THEN None
    ELSE IF now - c[key].fetchedAt > maxAgeMs THEN None ELSE c[key].manifest

isFileIndexedPathOnly(manifest, filePath, fileHash) ==
    \E i \in 1..Len(manifest) : manifest[i].filePath = filePath
isFileIndexed(manifest, filePath, fileHash) ==
    \E i \in 1..Len(manifest) :
        manifest[i].filePath = filePath /\ manifest[i].fileHash = fileHash


MaxPromises == MaxHandlers + MaxStarts
FreshPromise == CHOOSE i \in 1..MaxPromises : i \notin DOMAIN promises

FetchDispositionNoJoin(key) ==
    IF getCachedManifest(cache, key, MANIFEST_MAX_AGE_MS) # None THEN "hit" ELSE "miss"
\* getOrFetchManifest up to its await: join the pending fetch, serve the cached
\* manifest, or issue a fetch
FetchDisposition(key) ==
    IF key \in DOMAIN cache /\ cache[key].fetchPromise # 0 THEN "join"
    ELSE IF getCachedManifest(cache, key, MANIFEST_MAX_AGE_MS) # None THEN "hit"
    ELSE "miss"

\* the promise getOrFetchManifest awaits when it does not serve from the cache
PromiseOfGet(key) ==
    IF FetchDisposition(key) = "join" THEN cache[key].fetchPromise ELSE FreshPromise

\* the store after the synchronous part of getOrFetchManifest
CacheAfterGetKeepManifest(key) ==
    IF FetchDisposition(key) = "miss"
    THEN MapPut(cache, key,
                [manifest |-> IF key \in DOMAIN cache THEN cache[key].manifest ELSE None,
                 fetchedAt |-> now, fetchPromise |-> FreshPromise])
    ELSE cache
CacheAfterGet(key) ==
    IF FetchDisposition(key) = "miss"
    THEN MapPut(cache, key, [manifest |-> None, fetchedAt |-> now, fetchPromise |-> FreshPromise])
    ELSE cache
PromisesAfterGet(key) ==
    IF FetchDisposition(key) = "miss"
    THEN MapPut(promises, FreshPromise, [key |-> key, status |-> "pending", manifest |-> None])
    ELSE promises

CacheAfterFetchFromSnapshot(c, key, ok, manifest) ==
    IF ok THEN [k \in {key} |-> [manifest |-> Some(manifest), fetchedAt |-> now, fetchPromise |-> 0]]
    ELSE EmptyMap
CacheAfterFetchKeepOnError(c, key, ok, manifest) ==
    IF ok THEN MapPut(c, key, [manifest |-> Some(manifest), fetchedAt |-> now, fetchPromise |-> 0])
    ELSE IF key \in DOMAIN c THEN [c EXCEPT ![key].fetchPromise = 0] ELSE c
\* getOrFetchManifest after its await: publish the manifest, or delete the entry
CacheAfterFetch(c, key, ok, manifest) ==
    IF ok THEN MapPut(c, key, [manifest |-> Some(manifest), fetchedAt |-> now, fetchPromise |-> 0])
    ELSE MapDel(c, key)

(***************************************************************************)
(* The event loop: continuations of settled promises run first             *)
(***************************************************************************)
Settled(p) == p \in DOMAIN promises /\ promises[p].status # "pending"
HandlerReady(h) == handlers[h].pc = "fetch" /\ Settled(handlers[h].promise)
StartReady(s) == starts[s].pc = "loop" \/ (starts[s].pc = "fetch" /\ Settled(starts[s].promise))
MicrotaskPending ==
    \/ \E h \in DOMAIN handlers : HandlerReady(h)
    \/ \E s \in DOMAIN starts : StartReady(s)

\* a settled promise nobody awaits any more is garbage
Awaiters(p) ==
    Cardinality({h \in DOMAIN handlers : handlers[h].pc = "fetch" /\ handlers[h].promise = p})
    + Cardinality({s \in DOMAIN starts : starts[s].pc = "fetch" /\ starts[s].promise = p})
PromisesAfterResume(p) == IF Awaiters(p) = 1 THEN MapDel(promises, p) ELSE promises

FreeHandler == CHOOSE h \in 1..MaxHandlers : h \notin DOMAIN handlers
FreeStart == CHOOSE s \in 1..MaxStarts : s \notin DOMAIN starts

WorkUnits ==
    Cardinality({h \in DOMAIN handlers : handlers[h].ev.type = "file-changed"})
    + Len(queue) + Len(pool.active) + Len(pool.waiting) + Len(errors)

NoEvent ==
    [type |-> "none", watcher |-> NoWatcher, branch |-> NULL, isBaseBranch |-> FALSE,
     filePath |-> None, fileHash |-> NULL, previousBranch |-> NULL, newBranch |-> NULL]
Op(name, ev, id, out) == [op |-> name, ev |-> ev, id |-> id, out |-> out]

(***************************************************************************)
(* state/atoms and operations/workspace: the registry                      *)
(***************************************************************************)
MergeReplace(existing, updates) ==
    [k \in DOMAIN existing |-> IF k \in DOMAIN updates THEN updates[k] ELSE NULL]
Merge(existing, updates) ==
    [k \in DOMAIN existing |-> IF k \in DOMAIN updates THEN updates[k] ELSE existing[k]]

updateWorkspaceFolderCreate(fs, path, updates) ==
    IF path \in DOMAIN fs THEN [fs EXCEPT ![path] = Merge(@, updates)]
    ELSE MapPut(fs, path, Merge([gitBranch |-> NULL, projectId |-> NULL, repositoryUrl |-> NULL,
                                 isIndexing |-> FALSE, watcher |-> NoWatcher,
                                 lastError |-> None], updates))
\* updateWorkspaceFolderAtom: shallow merge, nothing when the path is absent
updateWorkspaceFolderNone(fs, path, updates) == fs
updateWorkspaceFolder(fs, path, updates) ==
    IF path \in DOMAIN fs THEN [fs EXCEPT ![path] = Merge(@, updates)] ELSE fs

findWorkspaceFolderFirst(fs, watcher) ==
    IF DOMAIN fs = {} THEN NULL
    ELSE WorkspacePaths[CHOOSE i \in 1..Len(WorkspacePaths) :
                            /\ WorkspacePaths[i] \in DOMAIN fs
                            /\ \A j \in 1..Len(WorkspacePaths) :
                                   WorkspacePaths[j] \in DOMAIN fs => i <= j]
\* findWorkspaceFolderByWatcher: the first entry, in insertion order, holding the
\* watcher; NULL when there is none
findWorkspaceFolderByWatcher(fs, watcher) ==
    LET hits == {i \in 1..Len(WorkspacePaths) :
                    /\ WorkspacePaths[i] \in DOMAIN fs
                    /\ fs[WorkspacePaths[i]].watcher = watcher}
    IN  IF hits = {} THEN NULL
        ELSE WorkspacePaths[CHOOSE i \in hits : \A j \in hits : i <= j]

updateWorkspaceFolderBranchNoFallback(projectId, newBranch, outcome) ==
    IF outcome = "throw"
    THEN [gitBranch |-> newBranch,
          lastError |-> Some(createError("config", None, newBranch, "update-branch"))]
    ELSE [gitBranch |-> newBranch,
          projectId |-> IF outcome = "none" THEN NULL ELSE outcome,
          lastError |-> None]
updateWorkspaceFolderBranchDropOnError(projectId, newBranch, outcome) ==
    IF outcome = "throw"
    THEN [lastError |-> Some(createError("config", None, newBranch, "update-branch"))]
    ELSE [gitBranch |-> newBranch,
          projectId |-> IF outcome = "none" THEN projectId ELSE outcome,
          lastError |-> None]
\* updateWorkspaceFolderBranch after the project-config lookup returned:
\* outcome is "throw", "none" (no project id in the config) or the project id
updateWorkspaceFolderBranch(projectId, newBranch, outcome) ==
    IF outcome = "throw"
    THEN [gitBranch |-> newBranch,
          lastError |-> Some(createError("config", None, newBranch, "update-branch"))]
    ELSE [gitBranch |-> newBranch,
          projectId |-> IF outcome = "none" THEN projectId ELSE outcome,
          lastError |-> None]


(***************************************************************************)
(* operations/git-events: the event state machine                          *)
(***************************************************************************)
\* a suspended handler: its event, the folder snapshot it was called with (path,
\* projectId), where it is suspended, the promise it awaits, the updates
\* handleBranchChanged got from the lookup; orphan records that dispose() ran
\* since the handler started
Handler(ev, path, projectId, pc, promise) ==
    [ev |-> ev, path |-> path, projectId |-> projectId, pc |-> pc, promise |-> promise,
     updates |-> None, orphan |-> FALSE]

\* the queue after handleFileChanged got its manifest
QueueAfterFileChangedAlways(q, ev, path, projectId, manifest) ==
    Append(q, createFileUpsertTask(ev.filePath, ev.fileHash, ev.branch, ev.isBaseBranch,
                                   projectId, path))
QueueAfterFileChanged(q, ev, path, projectId, manifest) ==
    IF isFileIndexed(manifest, ev.filePath, ev.fileHash) THEN q
    ELSE Append(q, createFileUpsertTask(ev.filePath, ev.fileHash, ev.branch, ev.isBaseBranch,
                                        projectId, path))

handleScanStart(path, ev) ==
    /\ folders' = updateWorkspaceFolder(folders, path, [isIndexing |-> TRUE, lastError |-> None])
    /\ UNCHANGED <<cache, promises, queue, errors, handlers>>

handleScanEndClear(path, ev) ==
    /\ folders' = updateWorkspaceFolder(folders, path, [isIndexing |-> FALSE, lastError |-> None])
    /\ UNCHANGED <<cache, promises, queue, errors, handlers>>

handleScanEnd(path, ev) ==
    /\ folders' = updateWorkspaceFolder(folders, path, [isIndexing |-> FALSE])
    /\ UNCHANGED <<cache, promises, queue, errors, handlers>>

handleFileDeleted(path, ev) ==
    UNCHANGED <<folders, cache, promises, queue, errors, handlers>>

\* handleFileChanged up to its await (or to its end, when the manifest is cached)
handleFileChanged(path, ev) ==
    IF ~shouldProcessFile(ev.filePath)
    THEN UNCHANGED <<folders, cache, promises, queue, errors, handlers>>
    ELSE IF config.token = NULL \/ config.organizationId = NULL \/ folders[path].projectId = NULL
    THEN UNCHANGED <<folders, cache, promises, queue, errors, handlers>>
    ELSE LET key == getManifestCacheKey(folders[path].projectId, ev.branch)
         IN  IF FetchDisposition(key) = "hit"
             THEN /\ queue' = QueueAfterFileChanged(queue, ev, path, folders[path].projectId,
                                                    cache[key].manifest[1])
                  /\ UNCHANGED <<folders, cache, promises, errors, handlers>>
             ELSE /\ handlers' = MapPut(handlers, FreeHandler,
                                        Handler(ev, path, folders[path].projectId, "fetch",
                                                PromiseOfGet(key)))
                  /\ cache' = CacheAfterGet(key)
                  /\ promises' = PromisesAfterGet(key)
                  /\ UNCHANGED <<folders, queue, errors>>

\* handleBranchChanged up to the await of the project-config lookup
handleBranchChanged(path, ev) ==
    /\ handlers' = MapPut(handlers, FreeHandler,
                          Handler(ev, path, folders[path].projectId, "lookup", 0))
    /\ UNCHANGED <<folders, cache, promises, queue, errors>>

processGitEvent(ev) ==
    LET path == findWorkspaceFolderByWatcher(folders, ev.watcher)
    IN  IF path = NULL
        THEN UNCHANGED <<folders, cache, promises, queue, errors, handlers>>
        ELSE IF folders[path].projectId = NULL \/ folders[path].gitBranch = NULL
        THEN UNCHANGED <<folders, cache, promises, queue, errors, handlers>>
        ELSE CASE ev.type = "scan-start" -> handleScanStart(path, ev)
               [] ev.type = "scan-end" -> handleScanEnd(path, ev)
               [] ev.type = "file-changed" -> handleFileChanged(path, ev)
               [] ev.type = "file-deleted" -> handleFileDeleted(path, ev)
               [] ev.type = "branch-changed" -> handleBranchChanged(path, ev)

handleGitEventAlways(ev) == processGitEvent(ev)
handleGitEvent(ev) ==
    IF ~isActive
    THEN UNCHANGED <<folders, cache, promises, queue, errors, handlers>>
    ELSE processGitEvent(ev)

\* onEvent(event): a watcher, or the host, delivers an event
OnEvent(ev) ==
    /\ ~MicrotaskPending
    /\ ev.type \in {"file-changed", "branch-changed"} => Cardinality(DOMAIN handlers) < MaxHandlers
    /\ ev.type = "file-changed" => WorkUnits < MaxWork
    /\ handleGitEvent(ev)
    /\ lastOp' = Op("onEvent", ev, 0, NULL)
    /\ UNCHANGED <<now, host, config, isActive, intervalOn, subscribed, watchers, starts,
                   pool, pure>>

\* the project-config lookup of a suspended handleBranchChanged returns; the
\* handler commits the branch and goes on to the manifest of the new branch
LookupComplete(h, outcome) ==
    /\ ~MicrotaskPending
    /\ h \in DOMAIN handlers
    /\ handlers[h].pc = "lookup"
    /\ LET hd == handlers[h]
           updates == updateWorkspaceFolderBranch(hd.projectId, hd.ev.newBranch, outcome)
           projectId == IF "projectId" \in DOMAIN updates /\ updates.projectId # NULL
                        THEN updates.projectId ELSE hd.projectId
           key == getManifestCacheKey(projectId, hd.ev.newBranch)
       IN  /\ folders' = updateWorkspaceFolder(folders, hd.path, updates)
           /\ IF config.token # NULL /\ config.organizationId # NULL /\ hd.projectId # NULL
                 /\ FetchDisposition(key) # "hit"
              THEN /\ handlers' = [handlers EXCEPT ![h].pc = "fetch",
                                                   ![h].promise = PromiseOfGet(key),
                                                   ![h].updates = Some(updates)]
                   /\ cache' = CacheAfterGet(key)
                   /\ promises' = PromisesAfterGet(key)
              ELSE /\ handlers' = MapDel(handlers, h)
                   /\ UNCHANGED <<cache, promises>>
    /\ lastOp' = Op("lookupComplete", handlers[h].ev, h, outcome)
    /\ UNCHANGED <<now, host, config, isActive, queue, errors, intervalOn, subscribed,
                   watchers, starts, pool, pure>>

\* the server answers a manifest fetch, or the fetch fails; the continuation of
\* the getOrFetchManifest that issued it updates the cache
FetchComplete(p, ok, manifest) ==
    /\ ~MicrotaskPending
    /\ p \in DOMAIN promises
    /\ promises[p].status = "pending"
    /\ promises' = [promises EXCEPT ![p].status = IF ok THEN "ok" ELSE "fail",
                                    ![p].manifest = IF ok THEN Some(manifest) ELSE None]
    /\ cache' = CacheAfterFetch(cache, promises[p].key, ok, manifest)
    /\ lastOp' = Op("fetchComplete", NoEvent, p, IF ok THEN "ok" ELSE "fail")
    /\ UNCHANGED <<now, host, config, isActive, folders, queue, errors, intervalOn,
                   subscribed, watchers, handlers, starts, pool, pure>>

\* a handler suspended in getOrFetchManifest resumes with the settled promise
HandlerResume(h) ==
    /\ h \in DOMAIN handlers
    /\ HandlerReady(h)
    /\ LET hd == handlers[h]
           pr == promises[hd.promise]
       IN  /\ IF hd.ev.type = "file-changed"
              THEN IF pr.status = "ok"
                   THEN /\ queue' = QueueAfterFileChanged(queue, hd.ev, hd.path, hd.projectId,
                                                          pr.manifest[1])
                        /\ UNCHANGED <<folders, errors>>
                   ELSE /\ errors' = Append(errors, createError("file-upsert", hd.ev.filePath,
                                                                hd.ev.branch, "queue-file-upsert"))
                        /\ UNCHANGED <<folders, queue>>
              ELSE IF pr.status = "ok"
                   THEN UNCHANGED <<folders, queue, errors>>
                   ELSE /\ folders' = updateWorkspaceFolder(folders, hd.path,
                                          [lastError |-> Some(createError("manifest", None,
                                                              hd.ev.newBranch, "branch-change"))])
                        /\ UNCHANGED <<queue, errors>>
           /\ promises' = PromisesAfterResume(hd.promise)
           /\ lastOp' = Op("handlerResume", hd.ev, h, pr.status)
    /\ handlers' = MapDel(handlers, h)
    /\ UNCHANGED <<now, host, config, isActive, cache, intervalOn, subscribed, watchers,
                   starts, pool, pure>>


(***************************************************************************)
(* ManagedIndexer: lifecycle                                               *)
(***************************************************************************)
FolderState(gitBranch, projectId, repositoryUrl, lastError) ==
    [gitBranch |-> gitBranch, projectId |-> projectId, repositoryUrl |-> repositoryUrl,
     isIndexing |-> FALSE, watcher |-> NoWatcher, lastError |-> lastError]

\* what initializeWorkspaceFolder returns, by what the repository inspection found:
\* "null" (not a git repository, or no project id), "error" (an inspection threw),
\* or "ok" with the branch and the project id
InitNull == [kind |-> "null", gitBranch |-> NULL, projectId |-> NULL]
InitError == [kind |-> "error", gitBranch |-> NULL, projectId |-> NULL]
InitOk(b, p) == [kind |-> "ok", gitBranch |-> b, projectId |-> p]
initializeWorkspaceFolder(path, found) ==
    IF found.kind = "ok"
    THEN [path |-> path, state |-> FolderState(found.gitBranch, found.projectId, "url", None)]
    ELSE [path |-> path,
          state |-> FolderState(NULL, NULL, NULL,
                                Some(createError("setup", None, NULL, "initialize-workspace")))]

RegistryWatchers(fs) == {fs[p].watcher : p \in DOMAIN fs} \ {NoWatcher}
FreeWatcher == CHOOSE w \in 1..MaxWatchers : w \notin DOMAIN watchers

StartRecord(pc, wsf, todo, map, promise) ==
    [pc |-> pc, wsf |-> wsf, found |-> <<>>, todo |-> todo, map |-> map, promise |-> promise]

disposeAllWatchersNone(ws, fs) == ws
\* disposeAllWatchers: the watchers of the registry are disposed
disposeAllWatchers(ws, fs) == [w \in DOMAIN ws \ RegistryWatchers(fs) |-> ws[w]]

FoldersAfterDisposeKeep(fs) == fs
\* dispose(): set(workspaceFoldersAtom, new Map())
FoldersAfterDispose(fs) == EmptyMap

QueueAfterDisposeKeep(q) == q
\* dispose(): set(fileUpsertQueueAtom, [])
QueueAfterDispose(q) == <<>>

DisposeEffects ==
    /\ intervalOn' = FALSE
    /\ watchers' = disposeAllWatchers(watchers, folders)
    /\ folders' = FoldersAfterDispose(folders)
    /\ isActive' = FALSE
    /\ queue' = QueueAfterDispose(queue)
    /\ errors' = <<>>
    /\ subscribed' = FALSE
    /\ handlers' = [h \in DOMAIN handlers |-> [handlers[h] EXCEPT !.orphan = TRUE]]

StartEffectsNoCheck(h) ==
    /\ config' = [token |-> h.token, organizationId |-> h.organizationId,
                  testerWarningsDisabledUntil |-> NULL]
    /\ starts' = MapPut(starts, FreeStart, StartRecord("entitlement", <<>>, <<>>, EmptyMap, 0))

\* start() up to the await of the entitlement check, with the host's values h
StartEffects(h) ==
    /\ config' = [token |-> h.token, organizationId |-> h.organizationId,
                  testerWarningsDisabledUntil |-> NULL]
    /\ starts' = IF h.folders = <<>> \/ h.token = NULL \/ h.organizationId = NULL
                 THEN starts
                 ELSE MapPut(starts, FreeStart, StartRecord("entitlement", <<>>, <<>>, EmptyMap, 0))

CanStart(ws, h) ==
    /\ Cardinality(DOMAIN starts) < MaxStarts
    /\ Cardinality(DOMAIN ws) + Len(h.folders) * (Cardinality(DOMAIN starts) + 1) <= MaxWatchers

\* dispose()
Dispose ==
    /\ ~MicrotaskPending
    /\ DisposeEffects
    /\ lastOp' = Op("dispose", NoEvent, 0, NULL)
    /\ UNCHANGED <<now, host, config, cache, promises, starts, pool, pure>>

\* start()
Start ==
    /\ ~MicrotaskPending
    /\ CanStart(watchers, host)
    /\ StartEffects(host)
    /\ lastOp' = Op("start", NoEvent, 0, NULL)
    /\ UNCHANGED <<now, host, isActive, folders, cache, queue, errors, intervalOn, subscribed,
                   watchers, promises, handlers, pool, pure>>

\* onConfigurationChange: the host changed the token or the organization id;
\* restart() = dispose(), then start(), when still subscribed
OnConfigurationChange(token, organizationId) ==
    /\ ~MicrotaskPending
    /\ subscribed
    /\ host' = [host EXCEPT !.token = token, !.organizationId = organizationId]
    /\ CanStart(disposeAllWatchers(watchers, folders), host')
    /\ DisposeEffects
    /\ StartEffects(host')
    /\ lastOp' = Op("restart", NoEvent, 0, "config")
    /\ UNCHANGED <<now, cache, promises, pool, pure>>

\* the host fires a configuration-change or a workspace-folders-change
\* notification, after the change to h; the listeners of setupSubscriptions, as
\* long as they are attached, call restart() = dispose(), then start()
Notify(h) ==
    /\ ~MicrotaskPending
    /\ host' = h
    /\ IF subscribed
       THEN /\ CanStart(disposeAllWatchers(watchers, folders), h)
            /\ DisposeEffects
            /\ StartEffects(h)
            /\ lastOp' = Op("notify", NoEvent, 0, "restart")
            /\ UNCHANGED <<now, cache, promises, pool, pure>>
       ELSE /\ lastOp' = Op("notify", NoEvent, 0, "ignored")
            /\ UNCHANGED <<now, config, isActive, folders, cache, queue, errors, intervalOn,
                           subscribed, watchers, promises, handlers, starts, pool, pure>>

\* the entitlement check of a suspended start() returns
StartEntitled(s, enabled) ==
    /\ ~MicrotaskPending
    /\ s \in DOMAIN starts
    /\ starts[s].pc = "entitlement"
    /\ IF ~enabled \/ config.token = NULL \/ config.organizationId = NULL
       THEN /\ starts' = MapDel(starts, s)
            /\ UNCHANGED isActive
       ELSE /\ isActive' = TRUE
            /\ starts' = [starts EXCEPT ![s].pc = "init", ![s].wsf = host.folders]
    /\ lastOp' = Op("startEntitled", NoEvent, s, IF enabled THEN "enabled" ELSE "disabled")
    /\ UNCHANGED <<now, host, config, folders, cache, queue, errors, intervalOn, subscribed,
                   watchers, promises, handlers, pool, pure>>

\* Promise.all of the initializeWorkspaceFolder calls resolves; found[i] is what
\* the inspection of folder i found.  The folders that are not null are set up
\* one after the other.
StartInitDone(s, found) ==
    /\ ~MicrotaskPending
    /\ s \in DOMAIN starts
    /\ starts[s].pc = "init"
    /\ DOMAIN found = 1..Len(starts[s].wsf)
    /\ LET all == [i \in 1..Len(starts[s].wsf) |->
                      initializeWorkspaceFolder(starts[s].wsf[i], found[i])]
           kept == {i \in 1..Len(starts[s].wsf) : found[i].kind # "null"}
           Nth[n \in 0..Len(starts[s].wsf)] ==
               IF n = 0 THEN <<>>
               ELSE IF n \in kept THEN Append(Nth[n - 1], all[n]) ELSE Nth[n - 1]
       IN  starts' = [starts EXCEPT ![s].pc = "loop", ![s].found = found,
                                    ![s].todo = Nth[Len(starts[s].wsf)]]
    /\ lastOp' = Op("startInitDone", NoEvent, s, NULL)
    /\ UNCHANGED <<now, host, config, isActive, folders, cache, queue, errors, intervalOn,
                   subscribed, watchers, promises, handlers, pool, pure>>

\* setupWorkspaceFolder after its manifest arrived (fetched = TRUE) or its fetch
\* failed: create the watcher, or keep the folder with the error
SetupResultAlwaysWatcher(st, fetched, watcherOk) == [st EXCEPT !.watcher = FreeWatcher]
SetupResult(st, fetched, watcherOk) ==
    IF fetched /\ watcherOk THEN [st EXCEPT !.watcher = FreeWatcher]
    ELSE [st EXCEPT !.lastError = Some(createError("manifest", None, st.gitBranch,
                                                   "setup-workspace"))]

WatchersAfterSetup(path, fetched, watcherOk) ==
    IF fetched /\ watcherOk
    THEN MapPut(watchers, FreeWatcher, [path |-> path, status |-> "created"])
    ELSE watchers

\* one turn of the loop of start() over the initialized folders: setupWorkspaceFolder
\* up to its await, or, after the last folder, publishing the registry and
\* starting the scans
StartLoopStep(s, watcherOk) ==
    /\ s \in DOMAIN starts
    /\ starts[s].pc = "loop"
    /\ LET sd == starts[s] IN
       IF sd.todo = <<>>
       THEN /\ folders' = sd.map
            /\ watchers' = [w \in DOMAIN watchers |->
                               IF w \in RegistryWatchers(sd.map)
                               THEN [watchers[w] EXCEPT !.status = "scanning"]
                               ELSE watchers[w]]
            /\ starts' = MapDel(starts, s)
            /\ UNCHANGED <<cache, promises>>
       ELSE LET path == Head(sd.todo).path
                st == Head(sd.todo).state
                key == getManifestCacheKey(st.projectId, st.gitBranch)
            IN  IF config.token = NULL \/ config.organizationId = NULL \/ st.projectId = NULL
                THEN /\ starts' = [starts EXCEPT ![s].todo = Tail(sd.todo)]
                     /\ UNCHANGED <<folders, watchers, cache, promises>>
                ELSE IF FetchDisposition(key) = "hit"
                THEN /\ starts' = [starts EXCEPT ![s].todo = Tail(sd.todo),
                                       ![s].map = MapPut(sd.map, path,
                                                         SetupResult(st, TRUE, watcherOk))]
                     /\ watchers' = WatchersAfterSetup(path, TRUE, watcherOk)
                     /\ UNCHANGED <<folders, cache, promises>>
                ELSE /\ starts' = [starts EXCEPT ![s].pc = "fetch",
                                                 ![s].promise = PromiseOfGet(key)]
                     /\ cache' = CacheAfterGet(key)
                     /\ promises' = PromisesAfterGet(key)
                     /\ UNCHANGED <<folders, watchers>>
    /\ lastOp' = Op("startLoop", NoEvent, s, NULL)
    /\ UNCHANGED <<now, host, config, isActive, queue, errors, intervalOn, subscribed,
                   handlers, pool, pure>>

\* a start() suspended in the initial manifest fetch resumes
StartResume(s, watcherOk) ==
    /\ s \in DOMAIN starts
    /\ starts[s].pc = "fetch"
    /\ Settled(starts[s].promise)
    /\ LET sd == starts[s]
           path == Head(sd.todo).path
           st == Head(sd.todo).state
           fetched == promises[sd.promise].status = "ok"
       IN  /\ starts' = [starts EXCEPT ![s].pc = "loop", ![s].promise = 0,
                             ![s].todo = Tail(sd.todo),
                             ![s].map = MapPut(sd.map, path, SetupResult(st, fetched, watcherOk))]
           /\ watchers' = WatchersAfterSetup(path, fetched, watcherOk)
           /\ promises' = PromisesAfterResume(sd.promise)
           /\ lastOp' = Op("startResume", NoEvent, s, promises[sd.promise].status)
    /\ UNCHANGED <<now, host, config, isActive, folders, cache, queue, errors, intervalOn,
                   subscribed, handlers, pool, pure>>

\* the initial scan of a watcher ends and startWatchers calls its start()
ScanDone(w) ==
    /\ ~MicrotaskPending
    /\ w \in DOMAIN watchers
    /\ watchers[w].status = "scanning"
    /\ watchers' = [watchers EXCEPT ![w].status = "started"]
    /\ lastOp' = Op("scanDone", NoEvent, w, NULL)
    /\ UNCHANGED <<now, host, config, isActive, folders, cache, queue, errors, intervalOn,
                   subscribed, promises, handlers, starts, pool, pure>>


(***************************************************************************)
(* ManagedIndexer: the upload queue and its consumer                       *)
(***************************************************************************)
\* the concurrency of fileUpsertLimit
MANAGED_MAX_CONCURRENT_FILES == 2

\* dequeueFileUpsertAtom / enqueueFileUpsertAtom
QueueAfterDequeueKeep(q) == q
QueueAfterDequeue(q) == IF q = <<>> THEN q ELSE Tail(q)

\* the function handed to fileUpsertLimit returns at once without a token or an
\* organization id
UploadRuns == config.token # NULL /\ config.organizationId # NULL

PoolAdmitNoLimit(pl, task) == [pl EXCEPT !.active = Append(@, task)]
\* fileUpsertLimit(fn): run fn now when fewer than the limit are running, else
\* keep it waiting
PoolAdmit(pl, task) ==
    IF Len(pl.active) < MANAGED_MAX_CONCURRENT_FILES
    THEN IF UploadRuns THEN [pl EXCEPT !.active = Append(@, task)] ELSE pl
    ELSE [pl EXCEPT !.waiting = Append(@, task)]

\* a running upload ended: the next waiting one is run
PoolRelease(pl, i) ==
    LET act == RemoveAt(pl.active, i)
    IN  IF pl.waiting = <<>> THEN [active |-> act, waiting |-> <<>>]
        ELSE IF UploadRuns
        THEN [active |-> Append(act, Head(pl.waiting)), waiting |-> Tail(pl.waiting)]
        ELSE [active |-> act, waiting |-> <<>>]

\* processFileUpsertQueue: one tick of the interval
IntervalTick ==
    /\ ~MicrotaskPending
    /\ intervalOn
    /\ queue' = QueueAfterDequeue(queue)
    /\ pool' = IF queue = <<>> THEN pool ELSE PoolAdmit(pool, Head(queue))
    /\ lastOp' = Op("intervalTick", NoEvent, 0, IF queue = <<>> THEN "empty" ELSE "task")
    /\ UNCHANGED <<now, host, config, isActive, folders, cache, errors, intervalOn, subscribed,
                   watchers, promises, handlers, starts, pure>>

\* processFileUpsert of a running upload ends: the file was read and uploaded,
\* or the read or the upload failed
UploadComplete(i, ok) ==
    /\ ~MicrotaskPending
    /\ i \in 1..Len(pool.active)
    /\ errors' = IF ok THEN errors
                 ELSE Append(errors, createError("file-upsert", pool.active[i].filePath,
                                                 pool.active[i].branch, NULL))
    /\ pool' = PoolRelease(pool, i)
    /\ lastOp' = Op("uploadComplete", NoEvent, i, IF ok THEN "ok" ELSE "fail")
    /\ UNCHANGED <<now, host, config, isActive, folders, cache, queue, intervalOn, subscribed,
                   watchers, promises, handlers, starts, pure>>

(***************************************************************************)
(* Time                                                                    *)
(***************************************************************************)
TimePoints == {0, 1, MANIFEST_MAX_AGE_MS, MANIFEST_MAX_AGE_MS + 1, MANIFEST_MAX_AGE_MS + 2}

Tick(t) ==
    /\ ~MicrotaskPending
    /\ t > now
    /\ now' = t
    /\ lastOp' = Op("tick", NoEvent, 0, NULL)
    /\ UNCHANGED <<host, config, isActive, folders, cache, queue, errors, intervalOn,
                   subscribed, watchers, promises, handlers, starts, pool, pure>>

(***************************************************************************)
(* Pure functions applied to drawn inputs                                  *)
(***************************************************************************)
NoPure == [fn |-> "none", manifest |-> <<>>, filePath |-> None, fileHash |-> NULL,
           done |-> FALSE, result |-> FALSE]

PureEntries == {Entry(p, h) : p \in {File_a_ts, File_B_TS}, h \in Hashes}
RECURSIVE SeqsUpTo(_, _)
SeqsUpTo(S, n) ==
    IF n = 0 THEN {<<>>}
    ELSE LET shorter == SeqsUpTo(S, n - 1)
         IN  shorter \cup {Append(q, x) : q \in shorter, x \in S}

ApplyIsFileIndexed ==
    /\ pure.fn = "isFileIndexed"
    /\ ~pure.done
    /\ pure' = [pure EXCEPT !.done = TRUE,
                            !.result = isFileIndexed(pure.manifest, pure.filePath, pure.fileHash)]
    /\ lastOp' = Op("isFileIndexed", NoEvent, 0, NULL)
    /\ UNCHANGED <<now, host, config, isActive, folders, cache, queue, errors, intervalOn,
                   subscribed, watchers, promises, handlers, starts, pool>>

\* pruneManifestCache applied to the cache as it is now; the function returns the
\* pruned map and does not write the atom
Prune(maxAgeMs) ==
    /\ ~MicrotaskPending
    /\ pure' = [fn |-> "pruneManifestCache", before |-> cache, maxAgeMs |-> maxAgeMs,
                at |-> now, result |-> pruneManifestCache(cache, maxAgeMs)]
    /\ lastOp' = Op("prune", NoEvent, 0, NULL)
    /\ UNCHANGED <<now, host, config, isActive, folders, cache, queue, errors, intervalOn,
                   subscribed, watchers, promises, handlers, starts, pool>>

\* ManagedIndexer.getWorkspaceFolderStateSnapshot: one record per value of the
\* registry, in the order in which start() inserted the folders
SnapshotRecord(path, st, hasWatcher) ==
    [workspaceFolderPath |-> path, gitBranch |-> st.gitBranch, projectId |-> st.projectId,
     isIndexing |-> st.isIndexing, hasManifest |-> TRUE, manifestFileCount |-> 0,
     hasWatcher |-> hasWatcher,
     error |-> IF st.lastError # None THEN Some(st.lastError[1]) ELSE None]
getWorkspaceFolderStateSnapshotAlwaysWatcher(fs) ==
    LET keys == SelectSeq(WorkspacePaths, LAMBDA q : q \in DOMAIN fs)
    IN  [i \in 1..Len(keys) |-> SnapshotRecord(keys[i], fs[keys[i]], TRUE)]
getWorkspaceFolderStateSnapshot(fs) ==
    LET keys == SelectSeq(WorkspacePaths, LAMBDA q : q \in DOMAIN fs)
    IN  [i \in 1..Len(keys) |->
            SnapshotRecord(keys[i], fs[keys[i]], fs[keys[i]].watcher # NoWatcher)]

Snapshot ==
    /\ ~MicrotaskPending
    /\ pure' = [fn |-> "getWorkspaceFolderStateSnapshot",
                result |-> getWorkspaceFolderStateSnapshot(folders)]
    /\ lastOp' = Op("snapshot", NoEvent, 0, NULL)
    /\ UNCHANGED <<now, host, config, isActive, folders, cache, queue, errors, intervalOn,
                   subscribed, watchers, promises, handlers, starts, pool>>

\* the partial updates that the handlers write, and one that resets the watcher
Updates ==
    {[isIndexing |-> b] : b \in BOOLEAN}
    \cup {[isIndexing |-> TRUE, lastError |-> None],
          [lastError |-> Some(createError("manifest", None, "feature", "branch-change"))],
          [gitBranch |-> "feature", projectId |-> "p2", lastError |-> None],
          [gitBranch |-> "main",
           lastError |-> Some(createError("config", None, "main", "update-branch"))],
          [watcher |-> NoWatcher]}

\* set(updateWorkspaceFolderAtom, {path, updates}); pure keeps the call and the
\* registry it was made on
UpdateFolder(path, updates) ==
    /\ folders' = updateWorkspaceFolder(folders, path, updates)
    /\ pure' = [fn |-> "updateWorkspaceFolder", path |-> path, updates |-> updates,
                before |-> folders]
    /\ lastOp' = Op("update", NoEvent, 0, NULL)
    /\ UNCHANGED <<now, host, config, isActive, cache, queue, errors, intervalOn, subscribed,
                   watchers, promises, handlers, starts, pool>>

(***************************************************************************)
(* Specifications                                                          *)
(***************************************************************************)
\* the state after new ManagedIndexer(contextProxy), the host holding a token,
\* an organization id and the workspace folders wsf
Constructed(wsf) ==
    /\ now = 0
    /\ host = [token |-> "tok", organizationId |-> "org", folders |-> wsf]
    /\ config = [token |-> NULL, organizationId |-> NULL, testerWarningsDisabledUntil |-> NULL]
    /\ isActive = FALSE
    /\ folders = EmptyMap
    /\ cache = EmptyMap
    /\ queue = <<>>
    /\ errors = <<>>
    /\ intervalOn = TRUE
    /\ subscribed = TRUE
    /\ watchers = EmptyMap
    /\ promises = EmptyMap
    /\ handlers = EmptyMap
    /\ starts = EmptyMap
    /\ pool = [active |-> <<>>, waiting |-> <<>>]
    /\ lastOp = Op("new", NoEvent, 0, NULL)

Other(b) == IF b = "main" THEN "feature" ELSE "main"
Event(type, w, b, filePath, fileHash, previousBranch, newBranch) ==
    [type |-> type, watcher |-> w, branch |-> b, isBaseBranch |-> (b = "main"),
     filePath |-> filePath, fileHash |-> fileHash, previousBranch |-> previousBranch,
     newBranch |-> newBranch]

ScanEvents(w) == {Event(t, w, "main", None, NULL, NULL, NULL) : t \in {"scan-start", "scan-end"}}
FileChangedEvents(w, paths, hashes, branches) ==
    {Event("file-changed", w, b, p, h, NULL, NULL) : b \in branches, p \in paths, h \in hashes}
FileDeletedEvents(w) == {Event("file-deleted", w, "main", File_a_ts, NULL, NULL, NULL)}
BranchChangedEvents(w) == {Event("branch-changed", w, b, None, NULL, Other(b), b) : b \in Branches}

EventSources == DOMAIN watchers \cup {UnknownWatcher}

\* the state start() leaves when every folder of wsf is a git repository on
\* branch main with a project id, its manifest was fetched at time 0, its watcher
\* was created and its initial scan has ended
ProjectOf(path) == IF path = "/w1" THEN "p1" ELSE "p2"
Running(wsf, manifestOf) ==
    /\ now = 0
    /\ host = [token |-> "tok", organizationId |-> "org", folders |-> wsf]
    /\ config = [token |-> "tok", organizationId |-> "org", testerWarningsDisabledUntil |-> NULL]
    /\ isActive = TRUE
    /\ folders = [p \in Range(wsf) |->
                     [FolderState("main", ProjectOf(p), "url", None) EXCEPT
                         !.watcher = CHOOSE i \in 1..Len(wsf) : wsf[i] = p]]
    /\ cache = [k \in {getManifestCacheKey(ProjectOf(p), "main") : p \in Range(wsf)} |->
                   [manifest |-> Some(manifestOf[k]), fetchedAt |-> 0, fetchPromise |-> 0]]
    /\ queue = <<>>
    /\ errors = <<>>
    /\ intervalOn = TRUE
    /\ subscribed = TRUE
    /\ watchers = [i \in 1..Len(wsf) |-> [path |-> wsf[i], status |-> "started"]]
    /\ promises = EmptyMap
    /\ handlers = EmptyMap
    /\ starts = EmptyMap
    /\ pool = [active |-> <<>>, waiting |-> <<>>]
    /\ lastOp = Op("new", NoEvent, 0, NULL)


(***************************************************************************)
(* Spec: the lifecycle.  One workspace folder; start(), dispose() and the  *)
(* restart on a configuration change interleave with the events of the     *)
(* folder's watcher, their lookups and fetches, and the upload consumer.   *)
(***************************************************************************)
Init ==
    /\ Constructed(<<"/w1">>)
    /\ pure = NoPure

LifecycleEvents(w) ==
    IF w = UnknownWatcher
    THEN {Event("scan-start", w, "main", None, NULL, NULL, NULL)}
    ELSE ScanEvents(w) \cup FileDeletedEvents(w)
         \cup {Event("branch-changed", w, "feature", None, NULL, "main", "feature")}
         \cup FileChangedEvents(w, {File_a_ts}, {"h1"}, {"feature"})

Next ==
    \/ Start
    \/ Dispose
    \/ OnConfigurationChange("tok", "org")
    \/ \E s \in 1..MaxStarts, enabled \in BOOLEAN : StartEntitled(s, enabled)
    \/ \E s \in 1..MaxStarts, found \in [{1} -> {InitNull, InitOk("main", "p1")}] :
           StartInitDone(s, found)
    \/ \E s \in 1..MaxStarts : StartLoopStep(s, TRUE)
    \/ \E s \in 1..MaxStarts : StartResume(s, TRUE)
    \/ \E w \in 1..MaxWatchers : ScanDone(w)
    \/ \E w \in EventSources : \E ev \in LifecycleEvents(w) : OnEvent(ev)
    \/ \E h \in 1..MaxHandlers, outcome \in {"none"} : LookupComplete(h, outcome)
    \/ \E p \in 1..MaxPromises, ok \in BOOLEAN : FetchComplete(p, ok, <<>>)
    \/ \E h \in 1..MaxHandlers : HandlerResume(h)
    \/ IntervalTick
    \/ \E i \in 1..MANAGED_MAX_CONCURRENT_FILES, ok \in BOOLEAN : UploadComplete(i, ok)

Spec == Init /\ [][Next]_vars

(***************************************************************************)
(* SpecFiles: file-changed events of a running indexer with one folder,    *)
(* /w1 on branch main of project p1, from its watcher and from an unknown  *)
(* one, with the fetches they cause and the consumer of the queue.         *)
(***************************************************************************)
InitFiles ==
    /\ \E m \in [{"p1:main"} -> ServerManifests] : Running(<<"/w1">>, m)
    /\ pure = NoPure

FilesEvents(w) ==
    IF w = UnknownWatcher
    THEN FileChangedEvents(w, {File_a_ts}, {"h2"}, {"main"})
    ELSE FileChangedEvents(w, {File_a_ts}, Hashes, {"main"})
         \cup FileChangedEvents(w, {File_a_ts, File_B_TS}, {"h1"}, {"feature"})
         \cup FileChangedEvents(w, {File_c_x, File_dot_ts, File_d}, {"h1"}, Branches)

NextFiles ==
    \/ \E w \in EventSources : \E ev \in FilesEvents(w) : OnEvent(ev)
    \/ \E p \in 1..MaxPromises, ok \in BOOLEAN, m \in ServerManifests : FetchComplete(p, ok, m)
    \/ \E h \in 1..MaxHandlers : HandlerResume(h)
    \/ IntervalTick
    \/ \E i \in 1..MANAGED_MAX_CONCURRENT_FILES, ok \in BOOLEAN : UploadComplete(i, ok)

SpecFiles == InitFiles /\ [][NextFiles]_vars

(***************************************************************************)
(* SpecTasks: file-changed events of the folder while a branch change      *)
(* moves it to project p2.                                                 *)
(***************************************************************************)
InitTasks ==
    /\ \E m \in [{"p1:main"} -> ServerManifests] : Running(<<"/w1">>, m)
    /\ pure = NoPure

TasksEvents ==
    {Event("branch-changed", 1, "feature", None, NULL, "main", "feature")}
    \cup FileChangedEvents(1, {File_a_ts}, Hashes, {"main"})
    \cup FileChangedEvents(1, {File_a_ts}, {"h1"}, {"feature"})

NextTasks ==
    \/ \E ev \in TasksEvents : OnEvent(ev)
    \/ \E h \in 1..MaxHandlers : LookupComplete(h, "p2")
    \/ \E p \in 1..MaxPromises, ok \in BOOLEAN, m \in ServerManifests : FetchComplete(p, ok, m)
    \/ \E h \in 1..MaxHandlers : HandlerResume(h)
    \/ IntervalTick
    \/ \E i \in 1..MANAGED_MAX_CONCURRENT_FILES : UploadComplete(i, TRUE)

SpecTasks == InitTasks /\ [][NextTasks]_vars

(***************************************************************************)
(* SpecBranch: branch-changed events of a running indexer with one folder, *)
(* their project-config lookups and manifest fetches.                      *)
(***************************************************************************)
InitBranch ==
    /\ \E m \in [{"p1:main"} -> {<<>>}] : Running(<<"/w1">>, m)
    /\ pure = NoPure

NextBranch ==
    \/ \E w \in EventSources : \E ev \in BranchChangedEvents(w) \cup ScanEvents(w) : OnEvent(ev)
    \/ \E h \in 1..MaxHandlers, outcome \in {"throw", "none", "p2"} : LookupComplete(h, outcome)
    \/ \E p \in 1..MaxPromises, ok \in BOOLEAN : FetchComplete(p, ok, <<>>)
    \/ \E h \in 1..MaxHandlers : HandlerResume(h)

SpecBranch == InitBranch /\ [][NextBranch]_vars

(***************************************************************************)
(* SpecFolders: a running indexer with two folders, /w1 (project p1) and   *)
(* /w2 (project p2); scan and branch-changed events of both watchers.      *)
(***************************************************************************)
InitFolders ==
    /\ \E m \in [{"p1:main", "p2:main"} -> {<<>>}] : Running(WorkspacePaths, m)
    /\ pure = NoPure

FoldersEvents(w) ==
    ScanEvents(w) \cup {Event("branch-changed", w, "feature", None, NULL, "main", "feature")}

NextFolders ==
    \/ \E w \in 1..Len(WorkspacePaths) : \E ev \in FoldersEvents(w) : OnEvent(ev)
    \/ \E h \in 1..MaxHandlers, outcome \in {"throw", "p3"} : LookupComplete(h, outcome)
    \/ \E p \in 1..MaxPromises, ok \in BOOLEAN : FetchComplete(p, ok, <<>>)
    \/ \E h \in 1..MaxHandlers : HandlerResume(h)

SpecFolders == InitFolders /\ [][NextFolders]_vars

(***************************************************************************)
(* SpecStart: start(), dispose() and the host's notifications with two     *)
(* workspace folders; every outcome of the inspection of a folder, of its  *)
(* initial manifest fetch and of the creation of its watcher.              *)
(***************************************************************************)
InitStart ==
    /\ Constructed(WorkspacePaths)
    /\ pure = NoPure

Hosts ==
    {[token |-> "tok", organizationId |-> "org", folders |-> WorkspacePaths],
     [token |-> NULL, organizationId |-> "org", folders |-> WorkspacePaths],
     [token |-> "tok", organizationId |-> NULL, folders |-> WorkspacePaths],
     [token |-> "tok", organizationId |-> "org", folders |-> <<>>]}

Inspections ==
    [1..Len(WorkspacePaths) ->
        {InitNull, InitError} \cup {InitOk("main", ProjectOf(p)) : p \in Range(WorkspacePaths)}]

NextStart ==
    \/ Start
    \/ Dispose
    \/ \E h \in Hosts : Notify(h)
    \/ \E s \in 1..MaxStarts, enabled \in BOOLEAN : StartEntitled(s, enabled)
    \/ \E s \in 1..MaxStarts, found \in Inspections :
           /\ \A i \in DOMAIN found :
                  found[i].kind = "ok" => found[i].projectId = ProjectOf(WorkspacePaths[i])
           /\ StartInitDone(s, found)
    \/ \E s \in 1..MaxStarts, watcherOk \in BOOLEAN : StartLoopStep(s, watcherOk)
    \/ \E s \in 1..MaxStarts, watcherOk \in BOOLEAN : StartResume(s, watcherOk)
    \/ \E p \in 1..MaxPromises, ok \in BOOLEAN : FetchComplete(p, ok, <<>>)
    \/ \E w \in 1..MaxWatchers : ScanDone(w)

SpecStart == InitStart /\ [][NextStart]_vars

(***************************************************************************)
(* SpecSnapshot: the snapshot taken at any point of start(), dispose() and *)
(* the scan events of two folders.                                         *)
(***************************************************************************)
NextSnapshot ==
    \/ Start
    \/ Dispose
    \/ \E s \in 1..MaxStarts : StartEntitled(s, TRUE)
    \/ \E s \in 1..MaxStarts, found \in Inspections :
           /\ \A i \in DOMAIN found :
                  found[i].kind = "ok" => found[i].projectId = ProjectOf(WorkspacePaths[i])
           /\ StartInitDone(s, found)
    \/ \E s \in 1..MaxStarts, watcherOk \in BOOLEAN : StartLoopStep(s, watcherOk)
    \/ \E s \in 1..MaxStarts, watcherOk \in BOOLEAN : StartResume(s, watcherOk)
    \/ \E p \in 1..MaxPromises, ok \in BOOLEAN : FetchComplete(p, ok, <<>>)
    \/ \E w \in 1..MaxWatchers : ScanDone(w)
    \/ \E w \in DOMAIN watchers : \E ev \in ScanEvents(w) : OnEvent(ev)
    \/ Snapshot

SpecSnapshot == InitStart /\ [][NextSnapshot]_vars

(***************************************************************************)
(* SpecSetup: start() over two folders whose inspection or setup can fail, *)
(* followed by branch switches whose project lookup can fail.              *)
(***************************************************************************)
NextSetup ==
    \/ Start
    \/ Dispose
    \/ \E s \in 1..MaxStarts : StartEntitled(s, TRUE)
    \/ \E s \in 1..MaxStarts, found \in Inspections :
           /\ \A i \in DOMAIN found :
                  found[i].kind = "ok" => found[i].projectId = ProjectOf(WorkspacePaths[i])
           /\ StartInitDone(s, found)
    \/ \E s \in 1..MaxStarts, watcherOk \in BOOLEAN : StartLoopStep(s, watcherOk)
    \/ \E s \in 1..MaxStarts, watcherOk \in BOOLEAN : StartResume(s, watcherOk)
    \/ \E p \in 1..MaxPromises, ok \in BOOLEAN : FetchComplete(p, ok, <<>>)
    \/ \E w \in 1..MaxWatchers : ScanDone(w)
    \/ \E w \in DOMAIN watchers :
           OnEvent(Event("branch-changed", w, "feature", None, NULL, "main", "feature"))
    \/ \E h \in 1..MaxHandlers, outcome \in {"throw", "none"} : LookupComplete(h, outcome)
    \/ \E h \in 1..MaxHandlers : HandlerResume(h)

SpecSetup == InitStart /\ [][NextSetup]_vars

(***************************************************************************)
(* SpecDrain: the consumer of the upload queue over dispose(), start() and *)
(* restarts, with one folder.  The interval fires again and again while it *)
(* is set, and a continuation that is ready to run does run.               *)
(***************************************************************************)
InitDrain ==
    /\ Constructed(<<"/w1">>)
    /\ pure = NoPure

DrainEvents(w) == FileChangedEvents(w, {File_a_ts}, {"h1"}, {"main"})

Continuations ==
    \/ \E s \in 1..MaxStarts : StartLoopStep(s, TRUE)
    \/ \E s \in 1..MaxStarts : StartResume(s, TRUE)

NextDrain ==
    \/ Start
    \/ Dispose
    \/ OnConfigurationChange("tok", "org")
    \/ \E s \in 1..MaxStarts : StartEntitled(s, TRUE)
    \/ \E s \in 1..MaxStarts : StartInitDone(s, [i \in {1} |-> InitOk("main", "p1")])
    \/ Continuations
    \/ \E p \in 1..MaxPromises, ok \in BOOLEAN : FetchComplete(p, ok, <<>>)
    \/ \E w \in 1..MaxWatchers : ScanDone(w)
    \/ \E w \in DOMAIN watchers : \E ev \in DrainEvents(w) : OnEvent(ev)
    \/ IntervalTick
    \/ \E i \in 1..MANAGED_MAX_CONCURRENT_FILES, ok \in BOOLEAN : UploadComplete(i, ok)

SpecDrain ==
    /\ InitDrain /\ [][NextDrain]_vars
    /\ WF_vars(IntervalTick)
    /\ WF_vars(Continuations)

(***************************************************************************)
(* SpecNotify: the indexer is constructed and started once, and from then  *)
(* on only the host's notifications act on it: dispose() runs only as the  *)
(* first half of a restart.                                                *)
(***************************************************************************)
NextNotify ==
    \/ lastOp.op = "new" /\ Start
    \/ \E h \in Hosts : Notify(h)
    \/ \E s \in 1..MaxStarts, enabled \in BOOLEAN : StartEntitled(s, enabled)
    \/ \E s \in 1..MaxStarts, found \in Inspections :
           /\ \A i \in DOMAIN found :
                  found[i].kind = "ok" => found[i].projectId = ProjectOf(WorkspacePaths[i])
           /\ StartInitDone(s, found)
    \/ \E s \in 1..MaxStarts, watcherOk \in BOOLEAN : StartLoopStep(s, watcherOk)
    \/ \E s \in 1..MaxStarts, watcherOk \in BOOLEAN : StartResume(s, watcherOk)
    \/ \E p \in 1..MaxPromises, ok \in BOOLEAN : FetchComplete(p, ok, <<>>)
    \/ \E w \in 1..MaxWatchers : ScanDone(w)

SpecNotify == InitStart /\ [][NextNotify]_vars

(***************************************************************************)
(* SpecSlow: one start() with two workspace folders while the server never *)
(* answers the manifest request of the second folder's project.  Every     *)
(* other pending operation completes, and ready continuations run.         *)
(***************************************************************************)
SlowKey == getManifestCacheKey(ProjectOf(WorkspacePaths[2]), "main")

AnsweredFetch ==
    \E p \in DOMAIN promises, ok \in BOOLEAN :
        promises[p].key # SlowKey /\ FetchComplete(p, ok, <<>>)

StartSteps ==
    \/ \E s \in 1..MaxStarts : StartEntitled(s, TRUE)
    \/ \E s \in 1..MaxStarts, found \in Inspections :
           /\ \A i \in DOMAIN found :
                  found[i].kind = "ok" => found[i].projectId = ProjectOf(WorkspacePaths[i])
           /\ StartInitDone(s, found)
    \/ \E s \in 1..MaxStarts, watcherOk \in BOOLEAN : StartLoopStep(s, watcherOk)
    \/ \E s \in 1..MaxStarts, watcherOk \in BOOLEAN : StartResume(s, watcherOk)

Scans == \E w \in 1..MaxWatchers : ScanDone(w)

NextSlow ==
    \/ lastOp.op = "new" /\ Start
    \/ StartSteps
    \/ AnsweredFetch
    \/ Scans
    \/ \E t \in TimePoints : Tick(t)

SpecSlow ==
    /\ InitStart /\ [][NextSlow]_vars
    /\ WF_vars(StartSteps) /\ WF_vars(AnsweredFetch) /\ WF_vars(Scans)

(***************************************************************************)
(* SpecUploads: the upload queue, its consumer and the upload pool, from   *)
(* the states in which the watcher of a running indexer has delivered up   *)
(* to MaxQueue file-changed events for files the manifest does not list.   *)
(***************************************************************************)
UploadEvents(w) == FileChangedEvents(w, {File_a_ts, File_B_TS}, Hashes, {"main"})

Backlogs ==
    SeqsUpTo({createFileUpsertTask(ev.filePath, ev.fileHash, ev.branch, ev.isBaseBranch,
                                   ProjectOf("/w1"), "/w1") : ev \in UploadEvents(1)},
             MaxQueue)

InitUploads ==
    /\ now = 0
    /\ host = [token |-> "tok", organizationId |-> "org", folders |-> <<"/w1">>]
    /\ config = [token |-> "tok", organizationId |-> "org", testerWarningsDisabledUntil |-> NULL]
    /\ isActive = TRUE
    /\ folders = [p \in {"/w1"} |->
                     [FolderState("main", ProjectOf(p), "url", None) EXCEPT !.watcher = 1]]
    /\ cache = [k \in {getManifestCacheKey(ProjectOf("/w1"), "main")} |->
                   [manifest |-> Some(<<>>), fetchedAt |-> 0, fetchPromise |-> 0]]
    /\ queue \in Backlogs
    /\ errors = <<>>
    /\ intervalOn = TRUE
    /\ subscribed = TRUE
    /\ watchers = [i \in {1} |-> [path |-> "/w1", status |-> "started"]]
    /\ promises = EmptyMap
    /\ handlers = EmptyMap
    /\ starts = EmptyMap
    /\ pool = [active |-> <<>>, waiting |-> <<>>]
    /\ lastOp = Op("new", NoEvent, 0, NULL)
    /\ pure = NoPure

NextUploads ==
    \/ \E w \in DOMAIN watchers : \E ev \in UploadEvents(w) : OnEvent(ev)
    \/ IntervalTick
    \/ \E i \in 1..MANAGED_MAX_CONCURRENT_FILES, ok \in BOOLEAN : UploadComplete(i, ok)

SpecUploads == InitUploads /\ [][NextUploads]_vars

(***************************************************************************)
(* SpecPool: the consumer and the upload pool of a running indexer with a  *)
(* backlog, over dispose() and over the restart that follows the host      *)
(* dropping its token.                                                     *)
(***************************************************************************)
NextPool ==
    \/ IntervalTick
    \/ \E i \in 1..MANAGED_MAX_CONCURRENT_FILES, ok \in BOOLEAN : UploadComplete(i, ok)
    \/ Dispose
    \/ Notify([token |-> NULL, organizationId |-> "org", folders |-> <<"/w1">>])

SpecPool == InitUploads /\ [][NextPool]_vars

(***************************************************************************)
(* SpecEvents: every type of event for one registered folder and for an    *)
(* unknown watcher, with the project lookup and the manifest fetch of the  *)
(* handlers failing or succeeding, and a dispose() at any moment.          *)
(***************************************************************************)
NextEvents ==
    \/ \E w \in EventSources :
           \E ev \in ScanEvents(w) \cup FileDeletedEvents(w)
                      \cup FileChangedEvents(w, {File_a_ts}, {"h1"}, Branches)
                      \cup {Event("branch-changed", w, "feature", None, NULL, "main", "feature")} :
               OnEvent(ev)
    \/ \E h \in 1..MaxHandlers, outcome \in {"throw", "none"} : LookupComplete(h, outcome)
    \/ \E p \in 1..MaxPromises, ok \in BOOLEAN : FetchComplete(p, ok, <<>>)
    \/ \E h \in 1..MaxHandlers : HandlerResume(h)
    \/ Dispose

SpecEvents == InitBranch /\ [][NextEvents]_vars

(***************************************************************************)
(* SpecRegistry: updates of the registry, of a registered and of an        *)
(* unregistered path, on registries of one and of two folders.             *)
(***************************************************************************)
InitRegistry ==
    /\ \E n \in 1..Len(WorkspacePaths) :
           Running(SubSeq(WorkspacePaths, 1, n), [k \in {"p1:main", "p2:main"} |-> <<>>])
    /\ pure = NoPure

NextRegistry == \E path \in Range(WorkspacePaths) \cup {"/w3"}, updates \in Updates :
                    UpdateFolder(path, updates)

SpecRegistry == InitRegistry /\ [][NextRegistry]_vars

(***************************************************************************)
(* SpecRestart: events and their handlers across dispose() and start() for *)
(* one folder whose setup can fail, so that a folder can be registered     *)
(* without a watcher while a handler from before the restart is suspended. *)
(***************************************************************************)
RestartEvents(w) ==
    {Event("scan-start", w, "main", None, NULL, NULL, NULL),
     Event("branch-changed", w, "feature", None, NULL, "main", "feature")}
    \cup FileChangedEvents(w, {File_a_ts}, {"h1"}, {"feature"})

NextRestart ==
    \/ Start
    \/ Dispose
    \/ \E s \in 1..MaxStarts : StartEntitled(s, TRUE)
    \/ \E s \in 1..MaxStarts : StartInitDone(s, [i \in {1} |-> InitOk("main", "p1")])
    \/ \E s \in 1..MaxStarts, watcherOk \in BOOLEAN : StartLoopStep(s, watcherOk)
    \/ \E s \in 1..MaxStarts, watcherOk \in BOOLEAN : StartResume(s, watcherOk)
    \/ \E w \in 1..MaxWatchers : ScanDone(w)
    \/ \E w \in EventSources : \E ev \in RestartEvents(w) : OnEvent(ev)
    \/ \E h \in 1..MaxHandlers : LookupComplete(h, "none")
    \/ \E p \in 1..MaxPromises, ok \in BOOLEAN : FetchComplete(p, ok, <<>>)
    \/ \E h \in 1..MaxHandlers : HandlerResume(h)

SpecRestart == Init /\ [][NextRestart]_vars

(***************************************************************************)
(* SpecSwitches: the watcher of /w1 reports two branch switches in a row,  *)
(* main to feature and then feature to release, and their handlers         *)
(* interleave.  The first switch is reported once, before the second.      *)
(***************************************************************************)
FirstSwitch == Event("branch-changed", 1, "feature", None, NULL, "main", "feature")
SecondSwitch == Event("branch-changed", 1, "release", None, NULL, "feature", "release")

NextSwitches ==
    \/ /\ handlers = EmptyMap /\ folders["/w1"].gitBranch = "main"
       /\ OnEvent(FirstSwitch)
    \/ /\ \/ \E h \in DOMAIN handlers : handlers[h].ev = FirstSwitch
          \/ folders["/w1"].gitBranch # "main"
       /\ OnEvent(SecondSwitch)
    \/ \E h \in 1..MaxHandlers, outcome \in {"throw", "none"} : LookupComplete(h, outcome)
    \/ \E p \in 1..MaxPromises, ok \in BOOLEAN : FetchComplete(p, ok, <<>>)
    \/ \E h \in 1..MaxHandlers : HandlerResume(h)

SpecSwitches == InitBranch /\ [][NextSwitches]_vars

(***************************************************************************)
(* SpecReuse: start(), dispose() and restart() of one folder while the     *)
(* clock passes the TTL of the manifest that the first start() fetched.    *)
(***************************************************************************)
NextReuse ==
    \/ Start
    \/ Dispose
    \/ OnConfigurationChange("tok", "org")
    \/ \E s \in 1..MaxStarts : StartEntitled(s, TRUE)
    \/ \E s \in 1..MaxStarts : StartInitDone(s, [i \in {1} |-> InitOk("main", "p1")])
    \/ \E s \in 1..MaxStarts : StartLoopStep(s, TRUE)
    \/ \E s \in 1..MaxStarts : StartResume(s, TRUE)
    \/ \E p \in 1..MaxPromises, ok \in BOOLEAN : FetchComplete(p, ok, <<>>)
    \/ \E w \in 1..MaxWatchers : ScanDone(w)
    \/ \E t \in TimePoints : Tick(t)

SpecReuse == Init /\ [][NextReuse]_vars

(***************************************************************************)
(* SpecManifest: the manifest cache of a running indexer as time passes;   *)
(* the callers of getOrFetchManifest are the file-changed handlers of /w1. *)
(***************************************************************************)
InitManifest ==
    /\ \E m \in [{"p1:main"} -> ServerManifests] : Running(<<"/w1">>, m)
    /\ pure = NoPure

NextManifest ==
    \/ \E ev \in FileChangedEvents(1, {File_a_ts}, {"h1"}, Branches) : OnEvent(ev)
    \/ \E p \in 1..MaxPromises, ok \in BOOLEAN, m \in ServerManifests : FetchComplete(p, ok, m)
    \/ \E h \in 1..MaxHandlers : HandlerResume(h)
    \/ \E t \in TimePoints : Tick(t)
    \/ IntervalTick
    \/ \E i \in 1..MANAGED_MAX_CONCURRENT_FILES : UploadComplete(i, TRUE)

SpecManifest == InitManifest /\ [][NextManifest]_vars

(***************************************************************************)
(* SpecPrune: pruneManifestCache on the caches that file-changed events,   *)
(* their fetches and the clock produce, around the horizon and the TTL.    *)
(***************************************************************************)
PruneTimePoints ==
    {MANIFEST_MAX_AGE_MS + 1, PRUNE_MAX_AGE_MS - 1, PRUNE_MAX_AGE_MS, PRUNE_MAX_AGE_MS + 1}
PruneHorizons == {MANIFEST_MAX_AGE_MS, PRUNE_MAX_AGE_MS}

NextPrune ==
    \/ \E ev \in FileChangedEvents(1, {File_a_ts}, {"h1"}, Branches) : OnEvent(ev)
    \/ \E p \in 1..MaxPromises, ok \in BOOLEAN : FetchComplete(p, ok, <<>>)
    \/ \E h \in 1..MaxHandlers : HandlerResume(h)
    \/ \E t \in PruneTimePoints : Tick(t)
    \/ \E maxAgeMs \in PruneHorizons : Prune(maxAgeMs)

SpecPrune == InitManifest /\ [][NextPrune]_vars

(***************************************************************************)
(* SpecPure: isFileIndexed on every manifest of at most MaxManifestLen     *)
(* entries.                                                                *)
(***************************************************************************)
InitPure ==
    /\ Constructed(<<"/w1">>)
    /\ \E m \in SeqsUpTo(PureEntries, MaxManifestLen), p \in {File_a_ts, File_B_TS}, h \in Hashes :
           pure = [fn |-> "isFileIndexed", manifest |-> m, filePath |-> p, fileHash |-> h,
                   done |-> FALSE, result |-> FALSE]

NextPure == ApplyIsFileIndexed

SpecPure == InitPure /\ [][NextPure]_vars


(***************************************************************************)
(* Properties                                                              *)
(***************************************************************************)
\* the registered folder whose watcher delivered ev
FolderOf(ev) ==
    IF \E p \in DOMAIN folders : folders[p].watcher = ev.watcher
    THEN CHOOSE p \in DOMAIN folders : folders[p].watcher = ev.watcher
    ELSE NULL
SupportedPaths == {File_a_ts, File_B_TS}
UnsupportedPaths == {File_c_x, File_dot_ts, File_d}
\* in the state before its delivery: the file-changed event ev will reach
\* getOrFetchManifest, with the key KeyOf(ev)
Fetches(ev) ==
    /\ isActive
    /\ ev.type = "file-changed"
    /\ ev.filePath \in SupportedPaths
    /\ FolderOf(ev) # NULL
    /\ folders[FolderOf(ev)].projectId # NULL
    /\ folders[FolderOf(ev)].gitBranch # NULL
    /\ config.token # NULL /\ config.organizationId # NULL
KeyOf(ev) == folders[FolderOf(ev)].projectId \o ":" \o ev.branch
\* the step delivers ev
Delivered(ev) == lastOp'.op = "onEvent" /\ lastOp'.ev = ev
Pending(p) == p \in DOMAIN promises /\ promises[p].status = "pending"
IssuedFor(key) ==
    \E p \in DOMAIN promises' \ DOMAIN promises :
        promises'[p].key = key /\ promises'[p].status = "pending"

\* C1: while a manifest fetch for a key is in flight, every further request for
\* that key joins it: there is one pending fetch per key, the cache entry of the
\* key publishes it, and every caller suspended on a pending fetch awaits the
\* published one, so all of them resume with the one value it settles to
C1_SingleFlight ==
    /\ \A p, q \in DOMAIN promises :
           Pending(p) /\ Pending(q) /\ promises[p].key = promises[q].key => p = q
    /\ \A p \in DOMAIN promises :
           Pending(p) => /\ promises[p].key \in DOMAIN cache
                         /\ cache[promises[p].key].fetchPromise = p
    /\ \A h \in DOMAIN handlers :
           handlers[h].pc = "fetch" /\ handlers[h].ev.type = "file-changed" =>
               /\ handlers[h].promise \in DOMAIN promises
               /\ promises[handlers[h].promise].key =
                      handlers[h].projectId \o ":" \o handlers[h].ev.branch

\* two callers await the same pending fetch
C1_Witness ==
    \E h1, h2 \in DOMAIN handlers :
        /\ h1 # h2
        /\ handlers[h1].pc = "fetch" /\ handlers[h2].pc = "fetch"
        /\ handlers[h1].promise = handlers[h2].promise
        /\ Pending(handlers[h1].promise)

\* a request that finds a fetched manifest in the cache, and the age of it
CachedAge(ev) ==
    LET e == cache[KeyOf(ev)] IN now - e.fetchedAt
Cached(ev) ==
    /\ Fetches(ev)
    /\ KeyOf(ev) \in DOMAIN cache
    /\ cache[KeyOf(ev)].fetchPromise = 0
    /\ cache[KeyOf(ev)].manifest # None
ServedFromCache == promises' = promises /\ handlers' = handlers /\ cache' = cache

\* C2: a manifest fetched at time T is served from the cache, without a remote
\* fetch, for every request at T' with T' - T <= 5 minutes, and a request at T'
\* with T' - T > 5 minutes issues a new remote fetch
C2_Expiry ==
    [][LET ev == lastOp'.ev IN
           Delivered(ev) /\ Cached(ev) =>
               IF CachedAge(ev) <= 5 * 60 * 1000
               THEN ServedFromCache
               ELSE IssuedFor(KeyOf(ev))]_vars

\* a request exactly 5 minutes after the fetch was served from the cache
C2_Witness ==
    /\ lastOp.op = "onEvent"
    /\ lastOp.ev.type = "file-changed"
    /\ "p1:" \o lastOp.ev.branch \in DOMAIN cache
    /\ cache["p1:" \o lastOp.ev.branch].manifest # None
    /\ now - cache["p1:" \o lastOp.ev.branch].fetchedAt = 5 * 60 * 1000
    /\ promises = EmptyMap
    /\ handlers = EmptyMap

\* C2 as the specification states it: served from the cache for T' < T + 5 minutes,
\* a new remote fetch for every T' >= T + 5 minutes
C2_Original ==
    [][LET ev == lastOp'.ev IN
           Delivered(ev) /\ Cached(ev) =>
               IF CachedAge(ev) < 5 * 60 * 1000
               THEN ServedFromCache
               ELSE IssuedFor(KeyOf(ev))]_vars

\* C3: when a manifest fetch fails, the entry of its key is deleted; the failure
\* reaches every caller suspended on it (a file-changed handler records it and
\* enqueues nothing); no entry is left without a manifest or a pending fetch, and
\* a request for a key without an entry issues a new fetch
C3_FailedFetch ==
    /\ [](\A k \in DOMAIN cache :
              IF cache[k].fetchPromise = 0 THEN cache[k].manifest # None
              ELSE Pending(cache[k].fetchPromise))
    /\ [][\A p \in DOMAIN promises :
              lastOp'.op = "fetchComplete" /\ lastOp'.id = p /\ lastOp'.out = "fail" =>
                  /\ promises[p].key \notin DOMAIN cache'
                  /\ \A h \in DOMAIN handlers :
                         handlers[h].pc = "fetch" /\ handlers[h].promise = p =>
                             /\ h \in DOMAIN handlers'
                             /\ promises'[handlers'[h].promise].status = "fail"]_vars
    /\ [][\A h \in DOMAIN handlers :
              /\ lastOp'.op = "handlerResume" /\ lastOp'.id = h
              /\ handlers[h].ev.type = "file-changed"
              /\ promises[handlers[h].promise].status = "fail"
              => queue' = queue /\ Len(errors') = Len(errors) + 1]_vars
    /\ [][LET ev == lastOp'.ev IN
              Delivered(ev) /\ Fetches(ev) /\ KeyOf(ev) \notin DOMAIN cache =>
                  IssuedFor(KeyOf(ev))]_vars

\* after a failed fetch of p1:feature whose caller recorded the failure, the next
\* request for the key is awaiting a new fetch
C3_Witness ==
    /\ Len(errors) >= 1
    /\ errors[1].operation = "queue-file-upsert"
    /\ lastOp.op = "onEvent"
    /\ lastOp.ev.branch = "feature"
    /\ "p1:feature" \in DOMAIN cache
    /\ cache["p1:feature"].manifest = None
    /\ Pending(cache["p1:feature"].fetchPromise)

\* C5: isFileIndexed(manifest, path, hash) is true exactly when the manifest holds
\* an entry with that path and that hash; a different hash for the path of an
\* entry gives false unless another entry carries that path and hash
C5_IsFileIndexed ==
    pure.done /\ pure.fn = "isFileIndexed" =>
        (pure.result <=> Entry(pure.filePath, pure.fileHash) \in Range(pure.manifest))

\* the manifest holds the path with another hash only, and the answer is false
C5_Witness ==
    /\ pure.done
    /\ pure.fn = "isFileIndexed"
    /\ pure.manifest # <<>>
    /\ \E i \in 1..Len(pure.manifest) : pure.manifest[i].filePath = pure.filePath
    /\ \A i \in 1..Len(pure.manifest) :
           pure.manifest[i].filePath = pure.filePath => pure.manifest[i].fileHash # pure.fileHash
    /\ ~pure.result

\* the task handleFileChanged builds for event ev of the folder at path, whose
\* project id was projectId when the event was delivered
TaskOf(ev, path, projectId) ==
    [filePath |-> ev.filePath, fileHash |-> ev.fileHash, branch |-> ev.branch,
     isBaseBranch |-> ev.isBaseBranch, projectId |-> projectId, workspacePath |-> path]
Listed(manifest, ev) == Entry(ev.filePath, ev.fileHash) \in Range(manifest)
QueueFor(manifest, ev, path, projectId) ==
    IF Listed(manifest, ev) THEN queue ELSE Append(queue, TaskOf(ev, path, projectId))

\* C4: a file-changed event with a supported extension, for a registered folder
\* with a project id, on an active indexer with a token and an organization id,
\* whose manifest is obtained: the queue grows by exactly one task, carrying the
\* event's path, hash, branch and base-branch flag, the folder's path and the
\* project id the folder had when the event was delivered, when the manifest
\* lacks the (path, hash) entry, and does not grow when the manifest has it
C4_Enqueue ==
    /\ [][LET ev == lastOp'.ev IN
              Delivered(ev) /\ Fetches(ev) =>
                  IF Cached(ev) /\ CachedAge(ev) <= 5 * 60 * 1000
                  THEN queue' = QueueFor(cache[KeyOf(ev)].manifest[1], ev, FolderOf(ev),
                                         folders[FolderOf(ev)].projectId)
                  ELSE /\ queue' = queue
                       /\ \E h \in DOMAIN handlers' \ DOMAIN handlers :
                              /\ handlers'[h].ev = ev
                              /\ handlers'[h].path = FolderOf(ev)
                              /\ handlers'[h].projectId = folders[FolderOf(ev)].projectId
                              /\ handlers'[h].pc = "fetch"]_vars
    /\ [][\A h \in DOMAIN handlers :
              /\ lastOp'.op = "handlerResume" /\ lastOp'.id = h
              /\ handlers[h].ev.type = "file-changed"
              /\ promises[handlers[h].promise].status = "ok"
              => queue' = QueueFor(promises[handlers[h].promise].manifest[1], handlers[h].ev,
                                   handlers[h].path, handlers[h].projectId)]_vars
    /\ [][\A h \in DOMAIN handlers :
              h \in DOMAIN handlers' /\ handlers[h].ev.type = "file-changed" =>
                  /\ handlers'[h].ev = handlers[h].ev
                  /\ handlers'[h].path = handlers[h].path
                  /\ handlers'[h].projectId = handlers[h].projectId]_vars

\* a handler that resumed with a manifest lacking the entry appended its task, with
\* the project id of the delivery, after a branch change gave the folder another
C4_Witness ==
    /\ lastOp.op = "handlerResume"
    /\ lastOp.ev.type = "file-changed"
    /\ lastOp.out = "ok"
    /\ queue # <<>>
    /\ queue[Len(queue)] = TaskOf(lastOp.ev, "/w1", "p1")
    /\ "/w1" \in DOMAIN folders
    /\ folders["/w1"].projectId = "p2"

\* C6: a file-changed event whose path has an extension outside the scanner's
\* set (compared in lower case), or none, enqueues no task and causes no manifest
\* fetch, whatever the cache holds
C6_Unsupported ==
    [][LET ev == lastOp'.ev IN
           Delivered(ev) /\ ev.type = "file-changed" /\ ev.filePath \in UnsupportedPaths =>
               /\ queue' = queue
               /\ promises' = promises
               /\ cache' = cache
               /\ handlers' = handlers]_vars

\* such an event was delivered by the watcher of the folder, while the cache held
\* no manifest of the event's branch
C6_Witness ==
    /\ lastOp.op = "onEvent"
    /\ lastOp.ev.type = "file-changed"
    /\ lastOp.ev.filePath \in UnsupportedPaths
    /\ isActive
    /\ \E p \in DOMAIN folders : folders[p].watcher = lastOp.ev.watcher
    /\ "p1:" \o lastOp.ev.branch \notin DOMAIN cache

\* C7: dispose() leaves the registry empty and the indexer inactive, and an event
\* delivered while the indexer is inactive changes neither the registry, nor the
\* manifest cache, nor the upload queue, and suspends no handler
C7_InactiveIgnores ==
    /\ [][lastOp'.op \in {"dispose", "restart"} =>
              folders' = EmptyMap /\ ~isActive']_vars
    /\ [][lastOp'.op = "onEvent" /\ ~isActive =>
              /\ folders' = folders
              /\ cache' = cache
              /\ queue' = queue
              /\ handlers' = handlers
              /\ promises' = promises]_vars

\* the watcher of a registered folder delivered a scan-start while the indexer was
\* inactive (a start() that dispose() overtook published the registry)
C7_Witness ==
    /\ lastOp.op = "onEvent"
    /\ lastOp.ev.type = "scan-start"
    /\ ~isActive
    /\ \E p \in DOMAIN folders :
           folders[p].watcher = lastOp.ev.watcher /\ folders[p].projectId # NULL

\* C8: dispose() empties the upload queue and the error list, and while the
\* indexer stays disposed (inactive, no start() under way) a file-changed handler
\* that was awaiting its manifest, or an upload that was running, appends no task
\* and no error when it completes or fails
C8_DisposedStaysEmpty ==
    /\ [][lastOp'.op = "dispose" => queue' = <<>> /\ errors' = <<>>]_vars
    /\ [][/\ lastOp'.op \in {"handlerResume", "uploadComplete"}
          /\ ~isActive
          /\ starts = EmptyMap
          => queue' = queue /\ errors' = errors]_vars

\* a handler that dispose() overtook has appended its task to the queue of the
\* disposed indexer
C8_Witness ==
    /\ lastOp.op = "handlerResume"
    /\ lastOp.ev.type = "file-changed"
    /\ lastOp.out = "ok"
    /\ ~isActive
    /\ starts = EmptyMap
    /\ queue # <<>>

\* C9: a handler that was suspended when dispose() or a restart removed its
\* folder changes nothing in the registry when it goes on: not the gitBranch,
\* projectId, isIndexing or lastError of an entry re-created at the same path
C9_OrphanLeavesRegistry ==
    [][\A h \in DOMAIN handlers :
           /\ lastOp'.op \in {"lookupComplete", "handlerResume"}
           /\ lastOp'.id = h
           /\ handlers[h].orphan
           => folders' = folders]_vars

\* the lookup of a handler started before a restart returned after the restart
\* had re-created the folder on main: the new entry is on the handler's branch
C9_Witness ==
    /\ lastOp.op = "lookupComplete"
    /\ lastOp.id \in DOMAIN handlers
    /\ handlers[lastOp.id].orphan
    /\ isActive
    /\ "/w1" \in DOMAIN folders
    /\ folders["/w1"].gitBranch = "feature"

\* C10 as the specification states it: when a branch-changed handler completes,
\* the folder's gitBranch is the event's new branch, its lastError has type
\* manifest when the fetch failed, and is null when lookup and fetch succeeded
C10_Original ==
    [][\A h \in DOMAIN handlers :
           /\ h \notin DOMAIN handlers'
           /\ handlers[h].ev.type = "branch-changed"
           /\ handlers[h].path \in DOMAIN folders'
           => LET f == folders'[handlers[h].path] IN
              /\ f.gitBranch = handlers[h].ev.newBranch
              /\ lastOp'.op = "handlerResume" /\ lastOp'.out = "fail" =>
                     f.lastError # None /\ f.lastError[1].type = "manifest"
              /\ lastOp'.op = "handlerResume" /\ lastOp'.out = "ok"
                 /\ "projectId" \in DOMAIN handlers[h].updates[1] =>
                     f.lastError = None]_vars

\* C10: a branch-changed handler of a registered folder commits the event's new
\* branch when its project-config lookup returns, whether the lookup succeeded
\* (lastError becomes null) or threw; a manifest fetch that fails afterwards sets
\* lastError to an error of type manifest and leaves gitBranch as it is, and one
\* that succeeds changes nothing in the registry
C10_BranchCommitted ==
    /\ [][\A h \in DOMAIN handlers :
              /\ lastOp'.op = "lookupComplete" /\ lastOp'.id = h
              /\ handlers[h].path \in DOMAIN folders
              => /\ handlers[h].path \in DOMAIN folders'
                 /\ folders'[handlers[h].path].gitBranch = handlers[h].ev.newBranch
                 /\ lastOp'.out # "throw" => folders'[handlers[h].path].lastError = None]_vars
    /\ [][\A h \in DOMAIN handlers :
              /\ lastOp'.op = "handlerResume" /\ lastOp'.id = h
              /\ handlers[h].ev.type = "branch-changed"
              /\ handlers[h].path \in DOMAIN folders
              => IF lastOp'.out = "fail"
                 THEN LET f == folders'[handlers[h].path] IN
                      /\ f.lastError # None /\ f.lastError[1].type = "manifest"
                      /\ f.gitBranch = folders[handlers[h].path].gitBranch
                 ELSE folders' = folders]_vars

\* a handler whose lookup threw and whose manifest fetch failed has completed:
\* the folder is on the new branch with a manifest error
C10_Witness ==
    /\ lastOp.op = "handlerResume"
    /\ lastOp.ev.type = "branch-changed"
    /\ lastOp.out = "fail"
    /\ handlers = EmptyMap
    /\ folders["/w1"].gitBranch = lastOp.ev.newBranch
    /\ folders["/w1"].gitBranch = "feature"
    /\ folders["/w1"].lastError # None
    /\ folders["/w1"].lastError[1].type = "manifest"

\* C11: a scan-start, scan-end or branch-changed event carrying the watcher of
\* folder F changes the registry entry of F only: at its delivery, and at every
\* later step of its handler, the entry of every other folder stays as it is and
\* no entry appears or disappears
C11_FolderIndependence ==
    /\ [][lastOp'.op = "onEvent"
          /\ lastOp'.ev.type \in {"scan-start", "scan-end", "branch-changed"}
          /\ FolderOf(lastOp'.ev) # NULL
          => /\ DOMAIN folders' = DOMAIN folders
             /\ \A q \in DOMAIN folders \ {FolderOf(lastOp'.ev)} : folders'[q] = folders[q]]_vars
    /\ [][\A h \in DOMAIN handlers :
              /\ lastOp'.op \in {"lookupComplete", "handlerResume"} /\ lastOp'.id = h
              /\ handlers[h].ev.type = "branch-changed"
              => /\ handlers[h].path = FolderOf(handlers[h].ev)
                 /\ DOMAIN folders' = DOMAIN folders
                 /\ \A q \in DOMAIN folders \ {handlers[h].path} : folders'[q] = folders[q]]_vars

\* the watcher of /w2 delivered scan-start: /w2 is indexing and /w1, which comes
\* first in the registry, is not
C11_Witness ==
    /\ lastOp.op = "onEvent"
    /\ lastOp.ev.type = "scan-start"
    /\ lastOp.ev.watcher = 2
    /\ folders["/w2"].isIndexing
    /\ ~folders["/w1"].isIndexing
    /\ folders["/w1"].gitBranch = "feature"


\* the two forms in which start() leaves a folder in its registry: set up (a
\* watcher, no error), or kept with the error of its setup (no watcher, an error
\* of type manifest, the branch and the project id of the inspection)
SetUp(st) == st.watcher # NoWatcher /\ st.lastError = None

KeptWithError(st, branch, projectId) ==
    /\ st.watcher = NoWatcher
    /\ st.lastError # None
    /\ st.lastError[1].type = "manifest"
    /\ st.gitBranch = branch /\ branch # NULL
    /\ st.projectId = projectId /\ projectId # NULL

\* the folders start() s goes on to set up: those of todo that have a project id
ToSetUp(sd) == {sd.todo[i].path : i \in {j \in DOMAIN sd.todo : sd.todo[j].state.projectId # NULL}}

\* C12: at the end of start(): a folder that is not a git repository, whose
\* inspection threw or that has no project id is absent from the registry; a
\* folder whose initial manifest fetch failed is present without a watcher, with
\* a lastError of type manifest and the branch and project id of its inspection;
\* a folder whose fetch and watcher creation succeeded is present with a watcher
\* and no lastError.  Stated on the steps of start(): the inspection keeps for
\* setup exactly the folders that it found with a project id; a setup adds to
\* the local map the folder it was for, in the form its fetch decides; and the
\* last step publishes that map as the registry.
C12_StartRegistry ==
    /\ [][lastOp'.op = "startInitDone" =>
            LET s == lastOp'.id
                found == starts'[s].found
            IN  /\ ToSetUp(starts'[s]) =
                       {starts[s].wsf[i] : i \in {j \in DOMAIN found : found[j].kind = "ok"}}
                /\ starts'[s].map = EmptyMap]_vars
    /\ [][lastOp'.op = "startResume" =>
            LET s == lastOp'.id
                path == Head(starts[s].todo).path
                st == Head(starts[s].todo).state
                map == starts'[s].map
            IN  /\ DOMAIN map = DOMAIN starts[s].map \cup {path}
                /\ \A q \in DOMAIN starts[s].map \ {path} : map[q] = starts[s].map[q]
                /\ path \in ToSetUp(starts[s])
                /\ lastOp'.out = "fail" => KeptWithError(map[path], st.gitBranch, st.projectId)
                /\ lastOp'.out = "ok" /\ watchers' # watchers =>
                       /\ SetUp(map[path])
                       /\ map[path].watcher \in DOMAIN watchers' \ DOMAIN watchers
                       /\ watchers'[map[path].watcher].path = path]_vars
    /\ [][lastOp'.op = "startLoop" /\ lastOp'.id \in DOMAIN starts' =>
            LET s == lastOp'.id
                path == Head(starts[s].todo).path
                map == starts'[s].map
            IN  /\ DOMAIN map \subseteq DOMAIN starts[s].map \cup {path}
                /\ \A q \in DOMAIN starts[s].map \ {path} : map[q] = starts[s].map[q]
                /\ path \notin ToSetUp(starts[s]) => map = starts[s].map
                /\ watchers' # watchers =>
                       /\ SetUp(map[path])
                       /\ map[path].watcher \in DOMAIN watchers' \ DOMAIN watchers]_vars
    /\ [][lastOp'.op = "startLoop" /\ lastOp'.id \notin DOMAIN starts' =>
            /\ folders' = starts[lastOp'.id].map
            /\ \A q \in DOMAIN folders' :
                   \/ SetUp(folders'[q])
                   \/ KeptWithError(folders'[q], folders'[q].gitBranch, folders'[q].projectId)]_vars

C12_Witness ==
    /\ lastOp.op = "startLoop" /\ starts = EmptyMap /\ isActive
    /\ DOMAIN folders = {"/w1", "/w2"}
    /\ KeptWithError(folders["/w1"], "main", "p1")
    /\ SetUp(folders["/w2"])

C12_WitnessAbsent ==
    /\ lastOp.op = "startLoop" /\ starts = EmptyMap /\ isActive
    /\ DOMAIN folders = {"/w2"} /\ SetUp(folders["/w2"])


\* a step in which start() ran up to its first checks with the host's values
Started == lastOp'.op = "start" \/ (lastOp'.op = "notify" /\ lastOp'.out = "restart")

TaskKey(t) == <<t.projectId, t.branch, t.filePath, t.fileHash>>

InFlight == queue \o pool.active \o pool.waiting

\* C14: duplicate uploads are avoided: the same file version, identified by
\* (projectId, branch, filePath, fileHash), is enqueued and submitted for upload
\* at most once.  Stated in a form the claim implies: no two of the tasks that
\* are enqueued or in the upload pool at one time are for the same file version.
C14_NoDuplicateUpload ==
    \A i, j \in DOMAIN InFlight : TaskKey(InFlight[i]) = TaskKey(InFlight[j]) => i = j

C14_Witness ==
    /\ Len(queue) = 2
    /\ TaskKey(queue[1]) = TaskKey(queue[2])
    /\ lastOp.op \in {"onEvent", "handlerResume"}
    /\ lastOp.ev.type = "file-changed"


\* the consumer has just taken a task out of the queue and handed it to the pool
JustDequeued == lastOp.op = "intervalTick" /\ lastOp.out = "task"

\* C15: the consumer drains the queue whenever the orchestrator is active: a
\* task enqueued while active is eventually dequeued and handed to the upload
\* pool, also after a restart.  The queue is first-in first-out, so the claim
\* implies: whenever the orchestrator is active with a task in the queue, a task
\* is dequeued later on (or the queue is cleared by a later dispose(), about
\* which the claim says nothing).
C15_QueueDrained ==
    [](isActive /\ queue # <<>> /\ ~JustDequeued => <>(JustDequeued \/ queue = <<>>))

\* the part of C15 that holds: while the interval is set a task is dequeued
\* later on
C15_DrainedWhileIntervalSet ==
    [](intervalOn /\ queue # <<>> /\ ~JustDequeued => <>(JustDequeued \/ queue = <<>>))

C15_Witness == isActive /\ queue # <<>> /\ ~intervalOn /\ lastOp.ev.type = "file-changed"


\* C16: every configuration-change and workspace-folder-change notification of
\* the host triggers a restart, also after an earlier restart: in the step of
\* the notification dispose() ran (the orchestrator is inactive and the registry
\* empty until the new start() gets further) and start() loaded the host's
\* configuration.
C16_NotificationRestarts ==
    [][lastOp'.op = "notify"
         => /\ ~isActive' /\ folders' = EmptyMap /\ queue' = <<>>
            /\ config'.token = host'.token
            /\ config'.organizationId = host'.organizationId]_vars

C16_Witness ==
    /\ lastOp.op = "notify" /\ ~subscribed
    /\ isActive /\ folders # EmptyMap
    /\ host.token = NULL /\ config.token # NULL


\* folder path was inspected, has its manifest and its watcher inside a start()
ReadyInStart(path) ==
    \E s \in DOMAIN starts : path \in DOMAIN starts[s].map /\ SetUp(starts[s].map[path])

\* folder path is in the registry with a started watcher
Serving(path) ==
    /\ path \in DOMAIN folders
    /\ folders[path].watcher \in DOMAIN watchers
    /\ watchers[folders[path].watcher].status = "started"

\* C17: a slow remote API for one folder never blocks another folder: a folder
\* whose inspection, project lookup and initial manifest fetch completed during
\* start() eventually is in the registry with a started watcher, even if the
\* initial manifest fetch of another folder never completes.
C17_SlowFolderDoesNotBlock == [](ReadyInStart(WorkspacePaths[1]) => <>Serving(WorkspacePaths[1]))

C17_Witness ==
    /\ ReadyInStart(WorkspacePaths[1])
    /\ \E s \in DOMAIN starts :
           /\ starts[s].pc = "fetch"
           /\ Head(starts[s].todo).path = WorkspacePaths[2]
           /\ promises[starts[s].promise].key = SlowKey
           /\ promises[starts[s].promise].status = "pending"
    /\ folders = EmptyMap


\* C18: at most MANAGED_MAX_CONCURRENT_FILES uploads are in flight at a time,
\* however many tasks were enqueued and dequeued; and enqueueing a task does not
\* wait for an upload: the step that appends the task leaves the pool as it is,
\* whatever is in flight.
C18_PoolLimit ==
    /\ [](Len(pool.active) <= MANAGED_MAX_CONCURRENT_FILES)
    /\ [][Len(queue') > Len(queue) => lastOp'.op = "onEvent" /\ pool' = pool]_vars

C18_Witness ==
    /\ Len(pool.active) = MANAGED_MAX_CONCURRENT_FILES
    /\ pool.waiting # <<>>
    /\ lastOp.op = "intervalTick"

C18_WitnessEnqueue ==
    /\ lastOp.op = "onEvent" /\ pool.active # <<>> /\ queue # <<>>


\* the tasks handed to the upload pool, in the order in which they were handed
Submitted(pl) == pl.active \o pl.waiting

\* C19: the upload queue is first-in first-out and a task is consumed at most
\* once: an enqueue appends at the tail and touches nothing else of the queue; a
\* tick of the consumer on an empty queue leaves queue and pool unchanged; a
\* tick on a non-empty queue removes the head, and only the head, and hands
\* exactly that task to the pool, behind the tasks handed over before; nothing
\* else changes the queue; and in the pool a task waits only while the pool is
\* full, and the first of the waiting tasks is the next to run.
C19_Fifo ==
    /\ [][lastOp'.op = "onEvent" /\ queue' # queue =>
            /\ Len(queue') = Len(queue) + 1
            /\ SubSeq(queue', 1, Len(queue)) = queue
            /\ queue'[Len(queue')] = TaskOf(lastOp'.ev, FolderOf(lastOp'.ev),
                                            folders[FolderOf(lastOp'.ev)].projectId)]_vars
    /\ [][lastOp'.op = "intervalTick" =>
            IF queue = <<>>
            THEN queue' = <<>> /\ pool' = pool /\ lastOp'.out = "empty"
            ELSE /\ queue' = Tail(queue)
                 /\ Submitted(pool') = Append(Submitted(pool), Head(queue))
                 /\ pool'.waiting # pool.waiting => pool'.active = pool.active]_vars
    /\ [][queue' # queue => lastOp'.op \in {"onEvent", "intervalTick"}]_vars
    /\ [](pool.waiting # <<>> => Len(pool.active) = MANAGED_MAX_CONCURRENT_FILES)
    /\ [][lastOp'.op = "uploadComplete" /\ pool.waiting # <<>> =>
            /\ pool'.waiting = Tail(pool.waiting)
            /\ pool'.active = Append(RemoveAt(pool.active, lastOp'.id), Head(pool.waiting))]_vars

C19_Witness ==
    /\ lastOp.op = "intervalTick" /\ lastOp.out = "task"
    /\ queue # <<>> /\ pool.waiting # <<>>
    /\ pool.active[1] # pool.active[2] /\ pool.waiting[1] # queue[1]

\* C20: when the upload of a dequeued task fails, exactly one error of type
\* file-upsert with the task's filePath and branch is appended to the error
\* list; the task is not put back on the queue; no folder's lastError, watcher
\* or isIndexing changes; and the later tasks are still processed: the consumer
\* keeps running and the first waiting task takes the place in the pool.
C20_UploadFailure ==
    [][lastOp'.op = "uploadComplete" /\ lastOp'.out = "fail" =>
         LET task == pool.active[lastOp'.id] IN
         /\ Len(errors') = Len(errors) + 1
         /\ SubSeq(errors', 1, Len(errors)) = errors
         /\ errors'[Len(errors')].type = "file-upsert"
         /\ errors'[Len(errors')].filePath = task.filePath
         /\ errors'[Len(errors')].branch = task.branch
         /\ queue' = queue
         /\ folders' = folders /\ watchers' = watchers
         /\ intervalOn' = intervalOn /\ isActive' = isActive
         /\ Len(Submitted(pool')) = Len(Submitted(pool)) - 1
         /\ pool.waiting # <<>> => Head(pool.waiting) \in Range(pool'.active)]_vars

C20_Witness ==
    /\ lastOp.op = "uploadComplete" /\ lastOp.out = "fail"
    /\ Len(errors) = 1 /\ errors[1].type = "file-upsert" /\ errors[1].filePath = File_a_ts
    /\ Len(pool.active) = MANAGED_MAX_CONCURRENT_FILES /\ queue # <<>>


\* a step of the handling of an event: its delivery, or a later resumption of
\* its handler
EventStep == lastOp'.op \in {"onEvent", "lookupComplete", "handlerResume"}

\* the handling of events never changes the set of registry keys nor a folder's
\* watcher, also when a lookup or a fetch fails in it; and an event whose
\* watcher matches no registry entry changes nothing
EventsKeepKeys ==
    /\ [][EventStep =>
            /\ DOMAIN folders' = DOMAIN folders
            /\ \A q \in DOMAIN folders : folders'[q].watcher = folders[q].watcher
            /\ watchers' = watchers]_vars
    /\ [][lastOp'.op = "onEvent" /\ FolderOf(lastOp'.ev) = NULL =>
            /\ folders' = folders /\ cache' = cache /\ promises' = promises
            /\ queue' = queue /\ errors' = errors /\ handlers' = handlers]_vars

Recorded == errors'[Len(errors')]

\* C22: onEvent never fails: whatever the type of the event, and when the
\* project lookup or the manifest fetch of its handler fails, the handler goes
\* on or ends as usual and the failure shows only as a recorded error.  A
\* failed lookup still commits the new branch and records a config error on the
\* folder; a failed fetch of a branch-changed handler records a manifest error
\* on the folder; a failed fetch of a file-changed handler appends one error to
\* the global list; a handler that resumes from its fetch ends; and a failing
\* step changes nothing else: not the active flag, the keys of the registry,
\* the watchers, the queue or the consumer.
C22_OnEventNeverFails ==
    /\ [][lastOp'.op = "lookupComplete" /\ lastOp'.out = "throw" =>
            LET h == lastOp'.id
                path == handlers[h].path
            IN  /\ path \in DOMAIN folders =>
                       /\ folders'[path].gitBranch = lastOp'.ev.newBranch
                       /\ folders'[path].lastError # None
                       /\ folders'[path].lastError[1].type = "config"
                /\ h \in DOMAIN handlers' => handlers'[h].pc = "fetch"
                /\ errors' = errors]_vars
    /\ [][lastOp'.op = "handlerResume" /\ lastOp'.out = "fail" =>
            LET h == lastOp'.id
                path == handlers[h].path
            IN  IF lastOp'.ev.type = "branch-changed"
                THEN /\ path \in DOMAIN folders =>
                            /\ folders'[path].lastError # None
                            /\ folders'[path].lastError[1].type = "manifest"
                            /\ folders'[path].lastError[1].branch = lastOp'.ev.newBranch
                     /\ errors' = errors
                ELSE /\ errors' = Append(errors, Recorded)
                     /\ Recorded.filePath = lastOp'.ev.filePath
                     /\ Recorded.branch = lastOp'.ev.branch
                     /\ folders' = folders]_vars
    /\ [][lastOp'.op = "handlerResume" => lastOp'.id \notin DOMAIN handlers']_vars
    /\ [][EventStep /\ lastOp'.out \in {"throw", "fail"} =>
            /\ isActive' = isActive /\ DOMAIN folders' = DOMAIN folders
            /\ watchers' = watchers /\ queue' = queue
            /\ intervalOn' = intervalOn /\ subscribed' = subscribed]_vars

C22_Witness ==
    /\ lastOp.op = "handlerResume" /\ lastOp.out = "fail"
    /\ lastOp.ev.type = "branch-changed"
    /\ isActive /\ handlers = EmptyMap
    /\ folders["/w1"].lastError # None
    /\ folders["/w1"].lastError[1].type = "manifest"
    /\ folders["/w1"].gitBranch = "feature"


\* C23: for a registered folder of an active orchestrator: scan-start sets the
\* folder's isIndexing and clears its lastError; scan-end resets isIndexing and
\* leaves lastError as it is; neither changes another field of the folder
\* (gitBranch, projectId, watcher) nor anything outside the registry; and
\* file-deleted changes no state at all.
C23_ScanEvents ==
    [][lastOp'.op = "onEvent" /\ isActive /\ FolderOf(lastOp'.ev) # NULL =>
         LET p == FolderOf(lastOp'.ev)
             type == lastOp'.ev.type
         IN  /\ type = "scan-start" =>
                    folders' = [folders EXCEPT ![p].isIndexing = TRUE, ![p].lastError = None]
             /\ type = "scan-end" =>
                    folders' = [folders EXCEPT ![p].isIndexing = FALSE]
             /\ type = "file-deleted" => folders' = folders
             /\ type \in {"scan-start", "scan-end", "file-deleted"} =>
                    /\ cache' = cache /\ promises' = promises /\ handlers' = handlers
                    /\ queue' = queue /\ errors' = errors /\ watchers' = watchers
                    /\ isActive' = isActive /\ pool' = pool]_vars

C23_Witness ==
    /\ lastOp.op = "onEvent" /\ lastOp.ev.type = "scan-end" /\ lastOp.ev.watcher = 1
    /\ isActive
    /\ ~folders["/w1"].isIndexing
    /\ folders["/w1"].lastError # None
    /\ folders["/w1"].gitBranch = "feature"

C23_WitnessStart ==
    /\ lastOp.op = "onEvent" /\ lastOp.ev.type = "scan-start" /\ lastOp.ev.watcher = 1
    /\ isActive /\ folders["/w1"].isIndexing /\ folders["/w1"].lastError = None
    /\ folders["/w1"].gitBranch = "feature"


\* C24: dispose(), from whatever state and also with tasks still queued, stops
\* the consumer of the queue, disposes the watcher of every registered folder
\* that has one, and leaves the registry, the upload queue and the error list
\* empty and the orchestrator inactive; and once the consumer is stopped no
\* dequeue tick happens.
C24_Dispose ==
    /\ [][lastOp'.op \in {"dispose", "restart"} =>
            /\ ~intervalOn'
            /\ \A q \in DOMAIN folders :
                   folders[q].watcher # NoWatcher => folders[q].watcher \notin DOMAIN watchers'
            /\ folders' = EmptyMap /\ queue' = <<>> /\ errors' = <<>>
            /\ ~isActive']_vars
    /\ [][~intervalOn => ~intervalOn' /\ lastOp'.op # "intervalTick"]_vars

C24_Witness ==
    /\ lastOp.op = "dispose"
    /\ queue = <<>> /\ folders = EmptyMap /\ watchers = EmptyMap
    /\ pool.active # <<>> /\ handlers # EmptyMap


\* C25: update(path, partialUpdate) on the registry is a shallow merge: when
\* path is registered, the fields named in the update take the new values and
\* all other fields of that entry and all other entries are unchanged; when
\* path is not registered, the registry is unchanged and no entry is created.
C25_ShallowMerge ==
    pure.fn = "updateWorkspaceFolder" =>
        LET before == pure.before
            path == pure.path
        IN  IF path \in DOMAIN before
            THEN /\ DOMAIN folders = DOMAIN before
                 /\ \A q \in DOMAIN before \ {path} : folders[q] = before[q]
                 /\ DOMAIN folders[path] = DOMAIN before[path]
                 /\ \A f \in DOMAIN before[path] :
                        folders[path][f] = IF f \in DOMAIN pure.updates
                                           THEN pure.updates[f] ELSE before[path][f]
            ELSE folders = before

C25_Witness ==
    /\ pure.fn = "updateWorkspaceFolder"
    /\ pure.path = "/w1" /\ pure.updates = [isIndexing |-> FALSE]
    /\ pure.before["/w1"].isIndexing
    /\ folders["/w1"].gitBranch = "feature" /\ folders["/w1"].lastError # None
    /\ "/w2" \in DOMAIN folders

C25_WitnessAbsent ==
    /\ pure.fn = "updateWorkspaceFolder"
    /\ pure.path = "/w2" /\ DOMAIN folders = {"/w1"}
    /\ folders["/w1"].isIndexing


\* C26: a folder whose watcher is null is never a target of event processing:
\* no step of the handling of an event changes the registry entry of a folder
\* that has no watcher, or enqueues a task with that folder's workspacePath.
C26_NullWatcherUntouched ==
    [][EventStep =>
         \A q \in DOMAIN folders :
             folders[q].watcher = NoWatcher =>
                 /\ q \in DOMAIN folders' /\ folders'[q] = folders[q]
                 /\ Len(queue') > Len(queue) => queue'[Len(queue')].workspacePath # q]_vars

\* the part of C26 that holds: at its delivery no event, whatever watcher it
\* carries, changes the entry of a folder without a watcher or enqueues for it
C26_AtDelivery ==
    [][lastOp'.op = "onEvent" =>
         \A q \in DOMAIN folders :
             folders[q].watcher = NoWatcher =>
                 /\ q \in DOMAIN folders' /\ folders'[q] = folders[q]
                 /\ Len(queue') > Len(queue) => queue'[Len(queue')].workspacePath # q]_vars

C26_Witness ==
    /\ lastOp.op = "lookupComplete"
    /\ isActive /\ starts = EmptyMap
    /\ "/w1" \in DOMAIN folders
    /\ folders["/w1"].watcher = NoWatcher
    /\ folders["/w1"].gitBranch = "feature"
    /\ folders["/w1"].lastError = None


\* C27: every entry of the manifest cache has exactly one of manifest and
\* fetchPromise non-null: a completed manifest with no pending fetch, or a
\* pending fetch with no manifest; never both and never neither.
C27_ExactlyOne ==
    \A k \in DOMAIN cache :
        (cache[k].manifest # None) # (cache[k].fetchPromise # 0)

\* an expired entry has been replaced by a pending fetch, next to a completed one
C27_Witness ==
    /\ lastOp.op = "onEvent"
    /\ \E k \in DOMAIN cache :
           /\ cache[k].fetchPromise # 0 /\ cache[k].manifest = None
           /\ cache[k].fetchedAt > MANIFEST_MAX_AGE_MS
    /\ \E k \in DOMAIN cache : cache[k].fetchPromise = 0 /\ cache[k].manifest # None

\* a fetch has completed and published its manifest in place of the pending entry
C27_WitnessCompleted ==
    /\ lastOp.op = "fetchComplete"
    /\ \E k \in DOMAIN cache :
           cache[k].fetchPromise = 0 /\ cache[k].manifest # None /\ cache[k].fetchedAt > 0


\* C28: recorded errors are typed by their cause: an error recorded because a
\* manifest fetch failed, in branch-changed or in file-changed handling, has
\* type manifest, on the folder or on the global error list.
C28_FetchFailureIsManifest ==
    [][lastOp'.op = "handlerResume" /\ lastOp'.out = "fail" =>
         LET path == handlers[lastOp'.id].path IN
         /\ errors' # errors => Recorded.type = "manifest"
         /\ (path \in DOMAIN folders /\ folders'[path].lastError # folders[path].lastError) =>
                folders'[path].lastError[1].type = "manifest"]_vars

\* the failed fetch of a file-changed handler is on the error list as file-upsert
C28_Witness ==
    /\ lastOp.op = "handlerResume" /\ lastOp.out = "fail"
    /\ lastOp.ev.type = "file-changed"
    /\ errors # <<>>
    /\ errors[Len(errors)].type = "file-upsert"
    /\ errors[Len(errors)].operation = "queue-file-upsert"


\* C29: on a branch switch the old branch's manifest is invalidated: when the
\* handling of a branch-changed(previous, new) event for a folder with project
\* id P has ended, the cache holds no entry for the key P:previous.
C29_OldBranchInvalidated ==
    [][/\ lastOp'.op \in {"lookupComplete", "handlerResume"}
       /\ lastOp'.ev.type = "branch-changed"
       /\ lastOp'.id \notin DOMAIN handlers'
       => getManifestCacheKey(handlers[lastOp'.id].projectId, lastOp'.ev.previousBranch)
              \notin DOMAIN cache']_vars

\* the invalidation itself removes the old key only and creates none
C29_InvalidationFrame ==
    \A P \in ProjectIds, old \in Branches, new \in Branches :
        LET c == invalidateManifestForBranch(cache, P, old, new)
            oldKey == getManifestCacheKey(P, old)
        IN  /\ DOMAIN c = DOMAIN cache \ {oldKey}
            /\ \A k \in DOMAIN c : c[k] = cache[k]

\* the folder is on the new branch, its handler has ended, and the manifest of
\* the previous branch is still in the cache
C29_Witness ==
    /\ lastOp.op \in {"lookupComplete", "handlerResume"}
    /\ lastOp.ev.type = "branch-changed"
    /\ lastOp.id \notin DOMAIN handlers
    /\ "/w1" \in DOMAIN folders /\ folders["/w1"].gitBranch = lastOp.ev.newBranch
    /\ getManifestCacheKey("p1", lastOp.ev.previousBranch) \in DOMAIN cache
    /\ getManifestCacheKey("p1", lastOp.ev.newBranch) \in DOMAIN cache


\* C30 as stated: prune(maxAgeMs) removes exactly the entries that have no
\* pending fetch and are older than maxAgeMs (now - fetchedAt > maxAgeMs); an
\* entry with a pending fetch is kept whatever its age, and an entry whose age
\* is at most maxAgeMs is kept.
C30_Original ==
    pure.fn = "pruneManifestCache" =>
        /\ DOMAIN pure.result =
               {k \in DOMAIN pure.before :
                    ~(pure.before[k].fetchPromise = 0
                      /\ pure.at - pure.before[k].fetchedAt > pure.maxAgeMs)}
        /\ \A k \in DOMAIN pure.result : pure.result[k] = pure.before[k]

\* C30, amended: prune(maxAgeMs) removes exactly the entries that have no
\* pending fetch and whose age is at least maxAgeMs (now - fetchedAt >=
\* maxAgeMs, default 30 minutes); an entry with a pending fetch is kept
\* whatever its age, an entry whose age is less than maxAgeMs is kept
\* unchanged, and no entry is created; the horizon does not depend on the
\* 5-minute freshness TTL.
C30_Prune ==
    pure.fn = "pruneManifestCache" =>
        /\ DOMAIN pure.result =
               {k \in DOMAIN pure.before :
                    ~(pure.before[k].fetchPromise = 0
                      /\ pure.at - pure.before[k].fetchedAt >= pure.maxAgeMs)}
        /\ \A k \in DOMAIN pure.result : pure.result[k] = pure.before[k]
        /\ \A k \in DOMAIN pure.before :
               (/\ pure.maxAgeMs = PRUNE_MAX_AGE_MS
                /\ pure.at - pure.before[k].fetchedAt < PRUNE_MAX_AGE_MS) =>
                   k \in DOMAIN pure.result

\* at the default horizon an entry whose age is exactly the horizon is removed,
\* while a pending fetch of the same age is kept
C30_Witness ==
    /\ lastOp.op = "prune"
    /\ pure.fn = "pruneManifestCache" /\ pure.maxAgeMs = PRUNE_MAX_AGE_MS
    /\ \E k \in DOMAIN pure.before \ DOMAIN pure.result :
           pure.before[k].fetchPromise = 0
           /\ pure.at - pure.before[k].fetchedAt = PRUNE_MAX_AGE_MS
    /\ \E k \in DOMAIN pure.result :
           pure.before[k].fetchPromise # 0
           /\ pure.at - pure.before[k].fetchedAt >= PRUNE_MAX_AGE_MS

\* an entry past the freshness TTL and short of the horizon is kept
C30_WitnessStale ==
    /\ lastOp.op = "prune"
    /\ pure.fn = "pruneManifestCache" /\ pure.maxAgeMs = PRUNE_MAX_AGE_MS
    /\ \E k \in DOMAIN pure.result :
           /\ pure.before[k].fetchPromise = 0
           /\ pure.at - pure.before[k].fetchedAt > MANIFEST_MAX_AGE_MS
           /\ pure.at - pure.before[k].fetchedAt < PRUNE_MAX_AGE_MS


\* C31: getWorkspaceFolderStateSnapshot() returns exactly one record per
\* registry entry, with gitBranch, projectId and isIndexing equal to the
\* entry's, hasWatcher true if and only if the entry's watcher is non-null, and
\* an error present if and only if lastError is non-null; the record contains
\* no watcher handle and the call changes no state.
C31_Snapshot ==
    [][lastOp'.op = "snapshot" =>
         LET r == pure'.result IN
         /\ Len(r) = Cardinality(DOMAIN folders)
         /\ \A q \in DOMAIN folders :
                \E i \in 1..Len(r) :
                    /\ r[i].workspaceFolderPath = q
                    /\ \A j \in 1..Len(r) : r[j].workspaceFolderPath = q => j = i
                    /\ r[i].gitBranch = folders[q].gitBranch
                    /\ r[i].projectId = folders[q].projectId
                    /\ r[i].isIndexing = folders[q].isIndexing
                    /\ r[i].hasWatcher = (folders[q].watcher # NoWatcher)
                    /\ (r[i].error # None) = (folders[q].lastError # None)
                    /\ "watcher" \notin DOMAIN r[i]
         /\ UNCHANGED <<now, host, config, isActive, folders, cache, queue, errors, intervalOn,
                        subscribed, watchers, promises, handlers, starts, pool>>]_vars

\* a snapshot of two folders: one with a watcher and scanning, one kept with an
\* error and without a watcher
C31_Witness ==
    /\ lastOp.op = "snapshot"
    /\ pure.fn = "getWorkspaceFolderStateSnapshot"
    /\ Len(pure.result) = 2
    /\ \E i, j \in 1..2 :
           /\ pure.result[i].hasWatcher /\ pure.result[i].isIndexing
           /\ pure.result[i].error = None
           /\ ~pure.result[j].hasWatcher /\ pure.result[j].error # None


\* C32: every folder present in the registry has a non-null projectId and a
\* non-null gitBranch: start() never registers a folder without them, and
\* branch-changed never sets projectId to null (it keeps the previous project
\* id when the lookup yields none or fails).
C32_RegisteredFoldersComplete ==
    /\ [](\A q \in DOMAIN folders : folders[q].projectId # NULL /\ folders[q].gitBranch # NULL)
    /\ [][lastOp'.op = "lookupComplete" /\ lastOp'.out \in {"none", "throw"} =>
            \A q \in DOMAIN folders :
                q \in DOMAIN folders' /\ folders'[q].projectId = folders[q].projectId]_vars

\* a lookup that failed has left the folder on the new branch with its project id
C32_Witness ==
    /\ lastOp.op = "lookupComplete" /\ lastOp.out = "throw"
    /\ \E q \in DOMAIN folders :
           /\ folders[q].gitBranch = lastOp.ev.newBranch
           /\ folders[q].projectId = ProjectOf(q)
           /\ folders[q].lastError # None /\ folders[q].lastError[1].type = "config"
    /\ Cardinality(DOMAIN folders) < Len(WorkspacePaths)


\* C33: in every state in which isActive is false, the registry is empty and
\* no watcher created by this indexer is running, for every interleaving of
\* start() and dispose(), including dispose() called while a start() is
\* suspended in folder initialization or in the initial manifest fetch.
C33_InactiveIsEmpty ==
    ~isActive =>
        /\ folders = EmptyMap
        /\ \A w \in DOMAIN watchers : watchers[w].status = "created"

\* the start() that dispose() overtook has ended: the indexer is inactive with
\* a published registry and a watcher that is scanning or watching
C33_Witness ==
    /\ ~isActive /\ starts = EmptyMap
    /\ "/w1" \in DOMAIN folders /\ folders["/w1"].watcher # NoWatcher
    /\ folders["/w1"].watcher \in DOMAIN watchers
    /\ watchers[folders["/w1"].watcher].status # "created"


\* C34: no watcher leaks: once every start() in progress has completed, every
\* watcher that was created and not disposed is the watcher of exactly one
\* registry entry, for every interleaving of start(), restart() and dispose().
C34_NoWatcherLeak ==
    starts = EmptyMap =>
        \A w \in DOMAIN watchers :
            Cardinality({q \in DOMAIN folders : folders[q].watcher = w}) = 1

\* a second start() has replaced the registry: the folder has its new watcher,
\* and the watcher of the first start() is still watching, held by no entry
C34_Witness ==
    /\ starts = EmptyMap /\ isActive
    /\ "/w1" \in DOMAIN folders /\ folders["/w1"].watcher \in DOMAIN watchers
    /\ \E w \in DOMAIN watchers :
           /\ w # folders["/w1"].watcher
           /\ watchers[w].status = "started"
           /\ \A q \in DOMAIN folders : folders[q].watcher # w


\* C35: when several branch-changed events for the same folder are delivered
\* in order and their handlers interleave, then once all handlers have
\* completed the folder's gitBranch is the newBranch of the event delivered
\* last.  Here the last event delivered is the switch to release, and its
\* handler is the one that has just completed.
C35_LastSwitchWins ==
    (/\ handlers = EmptyMap
     /\ lastOp.op \in {"lookupComplete", "handlerResume"}
     /\ lastOp.ev = SecondSwitch)
    => folders["/w1"].gitBranch = SecondSwitch.newBranch

\* the handler of the first switch commits its branch over the branch that the
\* handler of the second switch has committed
C35_NoOverwriteByEarlier ==
    [][(/\ lastOp'.op = "lookupComplete" /\ lastOp'.ev = FirstSwitch
        /\ folders["/w1"].gitBranch = SecondSwitch.newBranch)
       => folders'["/w1"].gitBranch = SecondSwitch.newBranch]_vars

\* both handlers have completed, the one of the second switch last, and the
\* folder is on the branch of the first switch
C35_Witness ==
    /\ handlers = EmptyMap
    /\ lastOp.op = "handlerResume" /\ lastOp.ev = SecondSwitch
    /\ folders["/w1"].gitBranch = FirstSwitch.newBranch


\* C36: dispose() leaves the manifest cache and the loaded configuration
\* unchanged, and a manifest that is in the cache and within the TTL is served
\* to the setup of a folder by a following start() without a new remote fetch:
\* that step issues no fetch, leaves the cache as it is and sets the folder up.
C36_CacheSurvivesDispose ==
    /\ [][lastOp'.op \in {"dispose", "restart"} => cache' = cache]_vars
    /\ [][lastOp'.op = "dispose" => config' = config]_vars
    /\ [][(/\ lastOp'.op = "startLoop"
           /\ starts[lastOp'.id].todo # <<>>
           /\ LET st == Head(starts[lastOp'.id].todo).state
                  key == getManifestCacheKey(st.projectId, st.gitBranch)
              IN  /\ key \in DOMAIN cache
                  /\ cache[key].manifest # None
                  /\ now - cache[key].fetchedAt <= MANIFEST_MAX_AGE_MS)
          => /\ promises' = promises /\ cache' = cache
             /\ Head(starts[lastOp'.id].todo).path \in DOMAIN starts'[lastOp'.id].map]_vars

\* after a dispose() that emptied a published registry, a new start() has set
\* /w1 up from the manifest fetched by the earlier start(), at the end of the TTL
C36_Witness ==
    /\ lastOp.op = "startLoop"
    /\ folders = EmptyMap /\ promises = EmptyMap
    /\ lastOp.id \in DOMAIN starts
    /\ "/w1" \in DOMAIN starts[lastOp.id].map
    /\ starts[lastOp.id].map["/w1"].watcher # NoWatcher
    /\ "p1:main" \in DOMAIN cache
    /\ now - cache["p1:main"].fetchedAt = MANIFEST_MAX_AGE_MS


\* C37: concurrent store updates are never lost: when fetches for two
\* different cache keys are in flight, the completion or failure of one changes
\* only its own key and leaves the entry of the other intact; and when handlers
\* of two different folders interleave, every step of a handler leaves the
\* latest state of the other folder intact.
C37_NoLostUpdate ==
    /\ [][lastOp'.op = "fetchComplete" =>
            LET key == promises[lastOp'.id].key IN
            /\ DOMAIN cache \ {key} \subseteq DOMAIN cache'
            /\ DOMAIN cache' \subseteq DOMAIN cache \cup {key}
            /\ \A k \in DOMAIN cache \ {key} : cache'[k] = cache[k]]_vars
    /\ [][\A h \in DOMAIN handlers :
              lastOp'.op \in {"lookupComplete", "handlerResume"} /\ lastOp'.id = h =>
                  \A q \in DOMAIN folders \ {handlers[h].path} :
                      q \in DOMAIN folders' /\ folders'[q] = folders[q]]_vars

\* of two fetches in flight for different keys one has failed; the other is
\* still pending in the cache
C37_Witness ==
    /\ lastOp.op = "fetchComplete" /\ lastOp.out = "fail"
    /\ promises[lastOp.id].key \notin DOMAIN cache
    /\ \E k \in DOMAIN cache : k # promises[lastOp.id].key /\ cache[k].fetchPromise # 0

\* the handler of one folder has recorded its failed fetch while the other
\* folder, whose handler is still suspended, keeps the branch and the scan flag
\* it got in the meantime
C37_WitnessFolders ==
    /\ lastOp.op = "handlerResume" /\ lastOp.out = "fail"
    /\ \E h \in DOMAIN handlers :
           /\ handlers[h].path # FolderOf(lastOp.ev)
           /\ folders[handlers[h].path].gitBranch = "feature"
           /\ folders[handlers[h].path].isIndexing
    /\ folders[FolderOf(lastOp.ev)].lastError # None


\* the step of start() that calls scan() on watcher w
ScanCalled(w) ==
    /\ w \in DOMAIN watchers /\ w \in DOMAIN watchers'
    /\ watchers[w].status = "created" /\ watchers'[w].status = "scanning"

\* C38: during start(), scan() is called on a watcher only after its folder has
\* been published in the registry with that watcher and while isActive is true,
\* and start() is called on it only after scan(); so an event emitted by the
\* initial scan is never dropped as coming from an unknown watcher.
C38_ScanAfterPublish ==
    /\ [][\A w \in 1..MaxWatchers :
              ScanCalled(w) =>
                  /\ isActive'
                  /\ \E q \in DOMAIN folders' : folders'[q].watcher = w]_vars
    /\ [][lastOp'.op = "scanDone" => watchers[lastOp'.id].status = "scanning"]_vars
    /\ [][(/\ lastOp'.op = "onEvent"
           /\ lastOp'.ev.watcher \in DOMAIN watchers
           /\ watchers[lastOp'.ev.watcher].status = "scanning")
          => findWorkspaceFolderByWatcher(folders, lastOp'.ev.watcher) # NULL]_vars

\* the order of the calls within one start(): publish, then scan(), then start()
C38_PublishScanStart ==
    /\ [][\A w \in 1..MaxWatchers :
              ScanCalled(w) => \E q \in DOMAIN folders' : folders'[q].watcher = w]_vars
    /\ [][lastOp'.op = "scanDone" => watchers[lastOp'.id].status = "scanning"]_vars

\* scan() has been called on the watcher of the published folder of an indexer
\* that dispose() made inactive during start()
C38_Witness ==
    /\ lastOp.op = "startLoop"
    /\ ~isActive
    /\ "/w1" \in DOMAIN folders /\ folders["/w1"].watcher \in DOMAIN watchers
    /\ watchers[folders["/w1"].watcher].status = "scanning"


\* C39: after dispose(), the upload collaborator is not called for any task
\* whose upload had not begun before dispose(): the tasks that were dequeued
\* and wait for admission to the pool are dropped together with the queued
\* ones, and an upload that ends afterwards starts no other.
C39_NoUploadAfterDispose ==
    /\ [][(lastOp'.op = "dispose" \/ (lastOp'.op = "notify" /\ lastOp'.out = "restart"))
          => pool'.waiting = <<>>]_vars
    /\ [][~isActive /\ lastOp'.op = "uploadComplete"
          => pool'.active = RemoveAt(pool.active, lastOp'.id)]_vars

\* with the indexer disposed and its queue empty, an upload has ended and a task
\* that was waiting has taken its place in the pool
C39_Witness ==
    /\ lastOp.op = "uploadComplete"
    /\ ~isActive /\ ~intervalOn /\ queue = <<>>
    /\ config.token # NULL
    /\ Len(pool.active) = MANAGED_MAX_CONCURRENT_FILES

\* C40: every dequeued task has exactly one recorded outcome: it is handed to
\* the upload collaborator and succeeds, or exactly one file-upsert error is
\* appended to the error list.  A dequeued task enters the pool; a task leaves
\* the pool only when its own upload ends, with an error appended exactly when
\* the upload failed; no other step takes a task out of the pool.
C40_OneOutcomePerTask ==
    /\ [][lastOp'.op = "intervalTick" /\ queue # <<>>
          => Submitted(pool') = Append(Submitted(pool), Head(queue))]_vars
    /\ [][lastOp'.op = "uploadComplete"
          => /\ Len(Submitted(pool')) = Len(Submitted(pool)) - 1
             /\ IF lastOp'.out = "fail"
                THEN /\ Len(errors') = Len(errors) + 1
                     /\ errors'[Len(errors')].type = "file-upsert"
                ELSE errors' = errors]_vars
    /\ [][lastOp'.op \notin {"intervalTick", "uploadComplete"} => pool' = pool]_vars

====
